---- MODULE Spec2Model ----
(***************************************************************************)
(* Verification model of the harpoon-collector service: market discovery,  *)
(* snapshot polling, trade ingestion and the start-up scheduler, as        *)
(* implemented by the collector service listed in WHALE_TRACKING.md        *)
(* (lines 630-1192).                                                       *)
(*                                                                         *)
(* Units.  JavaScript numbers are modelled in fixed point: share counts    *)
(* and monetary amounts in hundredths (the trades.size column is           *)
(* DECIMAL(15,2)), per-share prices in thousandths, timestamps in seconds  *)
(* upstream and in milliseconds once converted by the collector.           *)
(***************************************************************************)
EXTENDS Integers, Sequences, FiniteSets, Bags, TLC

(***************************************************************************)
(* Program constants                                                       *)
(***************************************************************************)
MIN_VOLUME_THRESHOLD == 100000

LARGE_TRADE_THRESHOLD == 1000

WHALE_TRADE_THRESHOLD == 10000

MIN_TRADE_SIZE_TO_STORE == 10000

SNAPSHOT_BATCH_SIZE == 10

TRADE_BATCH_SIZE == 5

(***************************************************************************)
(* Bounds of the model                                                     *)
(***************************************************************************)
\* events the upstream lists at a time
MaxEvents == 2

\* cleanup intervals a run of the retention model lasts
MaxIntervals == 32

(***************************************************************************)
(* Fixed-point helpers                                                     *)
(***************************************************************************)
\* a whole-dollar (or whole-share) amount in hundredths
Dollars(n) == n * 100

\* JavaScript a || b on numbers: 0 (and a missing field, modelled as 0) is falsy
OrElse(a, b) == IF a # 0 THEN a ELSE b

\* shares (hundredths) times price (thousandths), in hundredths of a dollar;
\* split so that the intermediate products stay inside 32 bits
UsdOf(shares, price) ==
  (shares \div 1000) * price + ((shares % 1000) * price) \div 1000

Max(S) == CHOOSE x \in S : \A y \in S : y <= x

VARIABLES
  listing,        \* upstream event listing (gamma-api /events): the events now listed
  trackedMarkets, \* the in-memory catalog (let trackedMarkets)
  disc,           \* the invocations of discoverMarkets
  feed,           \* upstream trade records published so far (data-api /trades)
  trades,         \* the trades table: a bag of rows
  snapshots,      \* the active_week_data table: a set of rows
  tcycle,         \* the invocations of fetchAndStoreTrades
  scycle,         \* the invocations of fetchAndStoreSnapshot
  boot,           \* the start-up code and the timers it arms
  clock,          \* readings of the wall clock taken so far (new Date())
  now,            \* Date.now() as cleanupOldData reads it, in hours since start-up
  sweep           \* the invocation of cleanupOldData and its interval timer

catalogVars == <<listing, trackedMarkets, disc>>

tradeVars == <<feed, trades, tcycle>>

schedVars == <<scycle, boot, clock>>

retentionVars == <<now, sweep>>

vars == <<listing, trackedMarkets, disc, feed, trades, snapshots, tcycle, scycle, boot, clock,
          now, sweep>>

(***************************************************************************)
(* Text.  A string is a sequence of one-character strings, so that         *)
(* toLowerCase, join and includes are computed character by character.     *)
(***************************************************************************)
\* String.prototype.toLowerCase, on one character
LowerChar(ch) ==
  CASE ch = "A" -> "a" [] ch = "B" -> "b" [] ch = "C" -> "c" [] ch = "D" -> "d"
    [] ch = "E" -> "e" [] ch = "F" -> "f" [] ch = "G" -> "g" [] ch = "H" -> "h"
    [] ch = "I" -> "i" [] ch = "J" -> "j" [] ch = "K" -> "k" [] ch = "L" -> "l"
    [] ch = "M" -> "m" [] ch = "N" -> "n" [] ch = "O" -> "o" [] ch = "P" -> "p"
    [] ch = "Q" -> "q" [] ch = "R" -> "r" [] ch = "S" -> "s" [] ch = "T" -> "t"
    [] ch = "U" -> "u" [] ch = "V" -> "v" [] ch = "W" -> "w" [] ch = "X" -> "x"
    [] ch = "Y" -> "y" [] ch = "Z" -> "z" [] OTHER -> ch

ToLowerCase(s) == [i \in 1..Len(s) |-> LowerChar(s[i])]

\* String.prototype.includes
Includes(s, sub) ==
  \E i \in 0..(Len(s) - Len(sub)) : SubSeq(s, i + 1, i + Len(sub)) = sub

\* [a, b, c, d].join(' ')
JoinWithSpace(a, b, c, d) == a \o <<" ">> \o b \o <<" ">> \o c \o <<" ">> \o d

(***************************************************************************)
(* discoverMarkets                                                         *)
(***************************************************************************)
\* exclusionKeywords
ExclusionKeywords ==
  {
    <<"f", "1">>,
    <<"f", "o", "r", "m", "u", "l", "a", " ", "1">>,
    <<"n", "f", "l">>,
    <<"n", "b", "a">>,
    <<"m", "l", "b">>,
    <<"n", "h", "l">>,
    <<"s", "o", "c", "c", "e", "r">>,
    <<"f", "o", "o", "t", "b", "a", "l", "l">>,
    <<"b", "a", "s", "k", "e", "t", "b", "a", "l", "l">>,
    <<"t", "e", "n", "n", "i", "s">>,
    <<"g", "o", "l", "f">>,
    <<"b", "o", "x", "i", "n", "g">>,
    <<"m", "m", "a">>,
    <<"u", "f", "c">>,
    <<"p", "o", "k", "e", "r">>,
    <<"h", "e", "a", "d", "s", "-", "u", "p", " ", "p", "o", "k", "e", "r">>,
    <<"w", "s", "o", "p">>,
    <<"w", "o", "r", "l", "d", " ", "s", "e", "r", "i", "e", "s", " ", "o", "f", " ", "p", "o", "k", "e", "r">>,
    <<"p", "r", "e", "m", "i", "e", "r", " ", "l", "e", "a", "g", "u", "e">>,
    <<"c", "h", "a", "m", "p", "i", "o", "n", "s", " ", "l", "e", "a", "g", "u", "e">>,
    <<"l", "a", " ", "l", "i", "g", "a">>,
    <<"s", "e", "r", "i", "e", " ", "a">>,
    <<"b", "u", "n", "d", "e", "s", "l", "i", "g", "a">>,
    <<"o", "s", "c", "a", "r">>,
    <<"e", "m", "m", "y">>,
    <<"g", "r", "a", "m", "m", "y">>,
    <<"m", "o", "v", "i", "e">>,
    <<"f", "i", "l", "m">>,
    <<"a", "c", "t", "o", "r">>,
    <<"b", "i", "t", "c", "o", "i", "n", " ", "p", "r", "i", "c", "e">>,
    <<"e", "t", "h", "e", "r", "e", "u", "m", " ", "p", "r", "i", "c", "e">>,
    <<"b", "t", "c", " ", "h", "i", "t">>,
    <<"e", "t", "h", " ", "h", "i", "t">>,
    <<"s", "o", "l", "a", "n", "a", " ", "p", "r", "i", "c", "e">>,
    <<"w", "e", "a", "t", "h", "e", "r">>,
    <<"t", "e", "m", "p", "e", "r", "a", "t", "u", "r", "e">>,
    <<"c", "e", "l", "s", "i", "u", "s">>,
    <<"f", "a", "h", "r", "e", "n", "h", "e", "i", "t">> }

TxtFed == <<"F", "e", "d", " ", "r", "a", "t", "e", " ", "d", "e", "c", "i", "s", "i", "o", "n", " ", "i", "n", " ", "D", "e", "c", "e", "m", "b", "e", "r">>

TxtCowboys == <<"W", "i", "l", "l", " ", "t", "h", "e", " ", "C", "o", "w", "b", "o", "y", "s", " ", "w", "i", "n", " ", "t", "h", "e", " ", "S", "u", "p", "e", "r", " ", "B", "o", "w", "l">>

TxtNfl == <<"W", "i", "l", "l", " ", "t", "h", "e", " ", "N", "F", "L", " ", "e", "x", "p", "a", "n", "d">>

TxtMacron == <<"W", "i", "l", "l", " ", "E", "m", "m", "a", "n", "u", "e", "l", " ", "M", "a", "c", "r", "o", "n", " ", "r", "e", "s", "i", "g", "n">>

TxtChair == <<"F", "e", "d", " ", "c", "h", "a", "i", "r", " ", "r", "e", "s", "i", "g", "n", "s">>

TxtCuts == <<"F", "e", "d", " ", "c", "u", "t", "s">>

TxtHost == <<"W", "h", "o", " ", "w", "i", "l", "l", " ", "h", "o", "s", "t">>

TxtOscars == <<"O", "s", "c", "a", "r", "s", " ", "2", "0", "2", "6">>

TxtFedTitle == <<"F", "e", "d", " ", "d", "e", "c", "i", "s", "i", "o", "n", "s">>

TxtWeatherDesc == <<"R", "e", "s", "o", "l", "v", "e", "s", " ", "o", "n", " ", "t", "h", "e", " ", "w", "e", "a", "t", "h", "e", "r", " ", "r", "e", "p", "o", "r", "t">>

TxtGolf == <<"G", "o", "l", "f">>

TxtVote == <<"V", "o", "t", "e">>

\* one market object of the listing; "" and 0 stand for an absent field
Market(id, volumeNum, volume, question, description, groupItemTitle) ==
  [id |-> id, conditionId |-> "", volumeNum |-> volumeNum, volume |-> volume,
   question |-> question, title |-> <<>>, description |-> description,
   groupItemTitle |-> groupItemTitle]

Event(id, title, markets) == [id |-> id, slug |-> "", title |-> title, markets |-> markets]

\* Events the upstream can list under the politics tag
EvFed ==
  Event("ev_fed", TxtFedTitle,
        << Market("fed", 150000, 0, TxtFed, <<>>, <<>>),
           Market("chair", 50000, 0, TxtChair, <<>>, <<>>),
           Market("cuts", 0, 200000, TxtCuts, <<>>, <<>>) >>)

EvMisc ==
  Event("ev_misc", <<>>,
        << Market("cowboys", 500000, 0, TxtCowboys, <<>>, <<>>),
           Market("nfl", 500000, 0, TxtNfl, <<>>, <<>>),
           Market("macron", 300000, 0, TxtMacron, <<>>, <<>>),
           Market("report", 250000, 0, TxtVote, TxtWeatherDesc, <<>>),
           Market("group", 250000, 0, TxtVote, <<>>, TxtGolf) >>)

EvOscars ==
  Event("ev_oscars", TxtOscars,
        << Market("host", 400000, 0, TxtHost, <<>>, <<>>) >>)

EventUniverse == {EvFed, EvMisc, EvOscars}

\* An event of more markets than one snapshot batch holds, all qualifying,
\* as listed at one time (b1..b11) and, with a further market listed first,
\* at another (b0..b11)
BigMarketIds == <<"b0", "b1", "b2", "b3", "b4", "b5", "b6", "b7", "b8", "b9", "b10", "b11">>

EvBig1 ==
  Event("ev_big", TxtFedTitle,
        [k \in 1..11 |-> Market(BigMarketIds[k + 1], 200000, 0, TxtFed, <<>>, <<>>)])

EvBig2 ==
  Event("ev_big", TxtFedTitle,
        [k \in 1..12 |-> Market(BigMarketIds[k], 200000, 0, TxtFed, <<>>, <<>>)])

\* An event of ten qualifying markets q1..q10, and one of the market q11
QuoteMarketIds == <<"q1", "q2", "q3", "q4", "q5", "q6", "q7", "q8", "q9", "q10">>

EvQuotes ==
  Event("ev_quotes", TxtFedTitle,
        [k \in 1..10 |-> Market(QuoteMarketIds[k], 200000, 0, TxtFed, <<>>, <<>>)])

EvOff ==
  Event("ev_off", TxtFedTitle, << Market("q11", 200000, 0, TxtFed, <<>>, <<>>) >>)

\* An event as listed with the markets q1 and q7 and, later, with q1 alone
EvDuo ==
  Event("ev_duo", TxtFedTitle,
        << Market("q1", 200000, 0, TxtFed, <<>>, <<>>),
           Market("q7", 200000, 0, TxtFed, <<>>, <<>>) >>)

EvSolo ==
  Event("ev_duo", TxtFedTitle, << Market("q1", 200000, 0, TxtFed, <<>>, <<>>) >>)

\* The market q1 listed once more, under a second event
EvTwin ==
  Event("ev_twin", TxtFedTitle, << Market("q1", 200000, 0, TxtFed, <<>>, <<>>) >>)

ListedEvents == EventUniverse \cup {EvBig1, EvBig2, EvQuotes, EvOff, EvDuo, EvSolo, EvTwin}

\* const limit = 100
LISTING_PAGE_LIMIT == 100

\* the page the listing returns for ?limit=100&offset=..
Page(events, offset) ==
  SubSeq(events, offset + 1,
         IF offset + LISTING_PAGE_LIMIT < Len(events) THEN offset + LISTING_PAGE_LIMIT
                                                    ELSE Len(events))

\* parseFloat(market.volumeNum || market.volume || 0)
VolumeNum(market) == OrElse(OrElse(market.volumeNum, market.volume), 0)

\* [question, description, event.title, groupItemTitle].join(' ').toLowerCase()
SearchText(market, event) ==
  ToLowerCase(JoinWithSpace(market.question, market.description, event.title,
                            market.groupItemTitle))

\* exclusionKeywords.some(keyword => searchText.includes(keyword.toLowerCase()))
HasExclusionKeyword(market, event) ==
  \E keyword \in ExclusionKeywords :
    Includes(SearchText(market, event), ToLowerCase(keyword))

\* the filter with the searchable text reduced to the question
QualifiesByQuestionOnly(market, event) ==
  /\ ~(VolumeNum(market) < MIN_VOLUME_THRESHOLD)
  /\ ~\E keyword \in ExclusionKeywords :
        Includes(ToLowerCase(market.question), ToLowerCase(keyword))

\* the two `continue` tests of the filter loop
Qualifies(market, event) ==
  /\ ~(VolumeNum(market) < MIN_VOLUME_THRESHOLD)
  /\ ~HasExclusionKeyword(market, event)

\* every (market, parent event) pair the upstream can list
UpstreamCandidates ==
  UNION { { <<e.markets[k], e>> : k \in DOMAIN e.markets } : e \in ListedEvents }

\* the outcome of the filter loop's two tests on each of them
PassesFilter == [c \in UpstreamCandidates |-> Qualifies(c[1], c[2])]

\* the object pushed to qualifyingMarkets
CatalogEntry(market, event) ==
  [ market_id |-> IF market.id # "" THEN market.id ELSE market.conditionId,
    event_id |-> IF event.id # "" THEN event.id ELSE event.slug,
    market_question |-> IF market.question # <<>> THEN market.question
                        ELSE IF market.title # <<>> THEN market.title
                        ELSE IF event.title # <<>> THEN event.title
                        ELSE <<"U", "n", "k", "n", "o", "w", "n">>,
    volume_24h |-> VolumeNum(market) ]

\* the qualifying markets of one event, in listing order
RECURSIVE QualifyingOfEvent(_, _)
QualifyingOfEvent(event, k) ==
  IF k > Len(event.markets) THEN <<>>
  ELSE (IF PassesFilter[<<event.markets[k], event>>]
          THEN <<CatalogEntry(event.markets[k], event)>>
          ELSE <<>>) \o QualifyingOfEvent(event, k + 1)

\* for (const event of allEvents) for (const market of event.markets || [])
\* the filter loop left after the first event
QualifyingMarketsOfFirstEvent(allEvents) ==
  IF allEvents = <<>> THEN <<>> ELSE QualifyingOfEvent(Head(allEvents), 1)

RECURSIVE QualifyingMarkets(_)
QualifyingMarkets(allEvents) ==
  IF allEvents = <<>> THEN <<>>
  ELSE QualifyingOfEvent(Head(allEvents), 1) \o QualifyingMarkets(Tail(allEvents))

\* discoverMarkets is awaited by the start-up code and then run by its
\* interval timer ("main"), and awaited by a snapshot cycle that finds the
\* catalog empty (the cycle's own slot)
SnapshotCycles == {"S1", "S2"}

Discoverers == {"main"} \cup SnapshotCycles

\* offset and allEvents are the locals of a running invocation; of one that
\* has returned, replaced says whether it assigned trackedMarkets, allEvents
\* is what it had fetched and result is the value it returned
IdleDiscovery ==
  [pc |-> "idle", offset |-> 0, allEvents |-> <<>>, replaced |-> FALSE, result |-> <<>>]

\* return qualifyingMarkets
Returned(allEvents, qualifyingMarkets) ==
  [IdleDiscovery EXCEPT !.pc = "returned", !.replaced = TRUE,
                        !.allEvents = allEvents, !.result = qualifyingMarkets]

\* catch: return []
Caught == [IdleDiscovery EXCEPT !.pc = "returned"]

\* entry of discoverMarkets up to the first page request
BeginDiscovery(d) ==
  /\ disc[d].pc \in {"idle", "returned"}
  /\ disc' = [disc EXCEPT ![d] = [IdleDiscovery EXCEPT !.pc = "fetching"]]

\* a page request returns
DiscoveryPageReturn(d) ==
  /\ disc[d].pc = "fetching"
  /\ \/ \* fetch or response.json() throws: catch, return []
        /\ disc' = [disc EXCEPT ![d] = Caught]
        /\ UNCHANGED trackedMarkets
     \/ \* !response.ok: break, then filter what has been accumulated
        /\ disc' = [disc EXCEPT ![d] =
                      Returned(disc[d].allEvents, QualifyingMarkets(disc[d].allEvents))]
        /\ trackedMarkets' = QualifyingMarkets(disc[d].allEvents)
     \/ LET events == Page(listing, disc[d].offset)
        IN IF events = <<>>
             THEN /\ disc' = [disc EXCEPT ![d] =
                         Returned(disc[d].allEvents, QualifyingMarkets(disc[d].allEvents))]
                  /\ trackedMarkets' = QualifyingMarkets(disc[d].allEvents)
             ELSE /\ disc' = [disc EXCEPT ![d].allEvents = @ \o events,
                                          ![d].offset = @ + LISTING_PAGE_LIMIT]
                  /\ UNCHANGED trackedMarkets
  /\ UNCHANGED <<listing, tradeVars, snapshots, schedVars, retentionVars>>

\* the interval timer of discoverMarkets fires
StartDiscovery(d) ==
  /\ BeginDiscovery(d)
  /\ UNCHANGED <<listing, trackedMarkets, tradeVars, snapshots, schedVars, retentionVars>>

\* the upstream lists other events
ListingChanges(events) ==
  /\ events # listing
  /\ listing' = events
  /\ UNCHANGED <<trackedMarkets, disc, tradeVars, snapshots, schedVars, retentionVars>>

(***************************************************************************)
(* fetchAndStoreSnapshot                                                   *)
(***************************************************************************)
\* Numbers of the snapshot path are in units of 10^-9; volumes are in dollars.
UNIT == 1000000000

\* a number | NaN, as parseFloat returns
NaN == [nan |-> TRUE, v |-> 0]

Num(v) == [nan |-> FALSE, v |-> v]

\* null | a number, as a nullable column holds
Null == <<>>

Some(v) == <<v>>

Digits == <<"0", "1", "2", "3", "4", "5", "6", "7", "8", "9">>

IsDigit(ch) == \E k \in 1..10 : Digits[k] = ch

DigitValue(ch) == (CHOOSE k \in 1..10 : Digits[k] = ch) - 1

\* the longest prefix of s made of digits
RECURSIVE DigitPrefix(_)
DigitPrefix(s) ==
  IF s # <<>> /\ IsDigit(Head(s)) THEN <<Head(s)>> \o DigitPrefix(Tail(s)) ELSE <<>>

\* the integer a digit string denotes
RECURSIVE IntegerOf(_)
IntegerOf(ds) ==
  IF ds = <<>> THEN 0 ELSE IntegerOf(SubSeq(ds, 1, Len(ds) - 1)) * 10 + DigitValue(ds[Len(ds)])

\* the fraction a digit string after the point denotes, in units, of its
\* first nine digits
RECURSIVE FractionOf(_, _)
FractionOf(ds, weight) ==
  IF ds = <<>> \/ weight = 0 THEN 0
  ELSE DigitValue(Head(ds)) * weight + FractionOf(Tail(ds), weight \div 10)

RECURSIVE TrimStart(_)
TrimStart(s) == IF s # <<>> /\ Head(s) = " " THEN TrimStart(Tail(s)) ELSE s

RECURSIVE TrimEnd(_)
TrimEnd(s) == IF s # <<>> /\ s[Len(s)] = " " THEN TrimEnd(SubSeq(s, 1, Len(s) - 1)) ELSE s

\* parseFloat: leading blanks, a sign, digits, a point and digits; what
\* follows the number is ignored; NaN when no digit is found
ParseFloat(text) ==
  LET t == TrimStart(text)
      negative == t # <<>> /\ Head(t) = "-"
      signed == t # <<>> /\ Head(t) \in {"-", "+"}
      body == IF signed THEN Tail(t) ELSE t
      whole == DigitPrefix(body)
      rest == SubSeq(body, Len(whole) + 1, Len(body))
      fraction == IF rest # <<>> /\ Head(rest) = "." THEN DigitPrefix(Tail(rest)) ELSE <<>>
      magnitude == IntegerOf(whole) * UNIT + FractionOf(fraction, UNIT \div 10)
  IN IF whole = <<>> /\ fraction = <<>> THEN NaN
     ELSE Num(IF negative THEN 0 - magnitude ELSE magnitude)

\* the pieces of s between commas
RECURSIVE SplitAtCommas(_, _)
SplitAtCommas(s, piece) ==
  IF s = <<>> THEN <<piece>>
  ELSE IF Head(s) = "," THEN <<piece>> \o SplitAtCommas(Tail(s), <<>>)
  ELSE SplitAtCommas(Tail(s), Append(piece, Head(s)))

\* a JSON string literal without escapes
IsJsonString(p) ==
  /\ Len(p) >= 2 /\ p[1] = "\"" /\ p[Len(p)] = "\""
  /\ \A k \in 2..(Len(p) - 1) : p[k] # "\""

\* a JSON number literal: -?digits(.digits)?
IsJsonNumber(p) ==
  LET body == IF p # <<>> /\ Head(p) = "-" THEN Tail(p) ELSE p
      whole == DigitPrefix(body)
      rest == SubSeq(body, Len(whole) + 1, Len(body))
  IN /\ whole # <<>>
     /\ \/ rest = <<>>
        \/ /\ Head(rest) = "." /\ Len(rest) >= 2
           /\ DigitPrefix(Tail(rest)) = Tail(rest)

\* the text of a scalar JSON value, as parseFloat's String(value) sees it
ScalarText(p) == IF IsJsonString(p) THEN SubSeq(p, 2, Len(p) - 1) ELSE p

\* JSON.parse on the texts met here: an array of strings and numbers, a
\* string, a number or {}; throws on any other text
JsonParse(text) ==
  LET t == TrimEnd(TrimStart(text))
      inner == TrimEnd(TrimStart(SubSeq(t, 2, Len(t) - 1)))
      pieces == SplitAtCommas(inner, <<>>)
      items == [k \in DOMAIN pieces |-> TrimEnd(TrimStart(pieces[k]))]
      scalar(p) == IsJsonString(p) \/ IsJsonNumber(p)
  IN IF Len(t) >= 2 /\ t[1] = "[" /\ t[Len(t)] = "]"
       THEN IF inner = <<>>
              THEN [throws |-> FALSE, isArray |-> TRUE, items |-> <<>>]
            ELSE IF \A k \in DOMAIN items : scalar(items[k])
              THEN [throws |-> FALSE, isArray |-> TRUE,
                    items |-> [k \in DOMAIN items |-> ScalarText(items[k])]]
            ELSE [throws |-> TRUE, isArray |-> FALSE, items |-> <<>>]
     ELSE IF t = <<"{", "}">> \/ scalar(t)
       THEN [throws |-> FALSE, isArray |-> FALSE, items |-> <<>>]
     ELSE [throws |-> TRUE, isArray |-> FALSE, items |-> <<>>]

\* the text '["a", "b"]' of two price strings
PricesText(a, b) ==
  <<"[", "\"">> \o a \o <<"\"", ",", " ", "\"">> \o b \o <<"\"", "]">>

\* GET /markets/{market_id}: the live data of a market; <<>> is an absent
\* field, 0 an absent volume
Detail(conditionId, outcomePrices, clobTokenIds, volume24hr, active, closed) ==
  [ok |-> TRUE, conditionId |-> conditionId, outcomePrices |-> outcomePrices,
   clobTokenIds |-> clobTokenIds, volume24hr |-> volume24hr, volumeNum |-> 0,
   active |-> active, closed |-> closed]

\* live data quoting 0.65 / 0.35
Quoted(conditionId, active, closed) ==
  Detail(conditionId, PricesText(<<"0", ".", "6", "5">>, <<"0", ".", "3", "5">>), <<>>,
         1000, active, closed)

\* a response that is not ok
NotOk == [Quoted("", FALSE, FALSE) EXCEPT !.ok = FALSE]

\* clobTokenIds carrying the prices 0.6 and 0.4
TokenPrices == << [price |-> <<"0", ".", "6">>], [price |-> <<"0", ".", "4">>] >>

\*   b3: no outcomePrices      b5: closed and not active      b7: no conditionId
\*   b9: the request fails     b11: not active, not closed
\*   q1: 0.65 / 0.35           q2: no outcomePrices, prices in clobTokenIds
\*   q3: outcomePrices that JSON.parse rejects, prices in clobTokenIds
\*   q4: 0 / 1                 q5: a price that is no number
\*   q6: not active, not closed       q7: active and closed
\*   q8: closed and not active        q9: prices of nine decimals
\*   q10: one price only       q11: a price above 1
MarketData ==
  [ b0 |-> Quoted("cb0", TRUE, FALSE), b1 |-> Quoted("cb1", TRUE, FALSE),
    b2 |-> Quoted("cb2", TRUE, FALSE),
    b3 |-> Detail("cb3", <<>>, <<>>, 1000, TRUE, FALSE),
    b4 |-> Quoted("cb4", TRUE, FALSE),
    b5 |-> Detail("cb5", PricesText(<<"0", ".", "9", "9">>, <<"0", ".", "0", "1">>), <<>>,
                  1000, FALSE, TRUE),
    b6 |-> Quoted("cb6", TRUE, FALSE), b7 |-> Quoted("", TRUE, FALSE),
    b8 |-> Quoted("cb8", TRUE, FALSE), b9 |-> NotOk,
    b10 |-> Quoted("cb10", TRUE, FALSE), b11 |-> Quoted("cb11", FALSE, FALSE),
    q1 |-> Quoted("cq1", TRUE, FALSE),
    q2 |-> Detail("cq2", <<>>, TokenPrices, 1000, TRUE, FALSE),
    q3 |-> Detail("cq3", <<"0", ".", "6", "5", ",", "0", ".", "3", "5">>, TokenPrices,
                  1000, TRUE, FALSE),
    q4 |-> Detail("cq4", PricesText(<<"0">>, <<"1">>), <<>>, 1000, TRUE, FALSE),
    q5 |-> Detail("cq5", PricesText(<<"a", "b", "c">>, <<"0", ".", "5">>), <<>>,
                  1000, TRUE, FALSE),
    q6 |-> Quoted("cq6", FALSE, FALSE),
    q7 |-> Quoted("cq7", TRUE, TRUE),
    q8 |-> Quoted("cq8", FALSE, TRUE),
    q9 |-> Detail("cq9", PricesText(<<"0", ".", "5", "0", "0", "0", "0", "0", "0", "0", "4">>,
                                    <<"0", ".", "4", "9", "9", "9", "9", "9", "9", "9", "6">>),
                  <<>>, 1000, TRUE, FALSE),
    q10 |-> Detail("cq10", <<"[", "\"", "0", ".", "5", "\"", "]">>, <<>>, 1000, TRUE, FALSE),
    q11 |-> Detail("cq11", PricesText(<<"1", ".", "5">>, <<"0", ".", "5">>), <<>>,
                   1000, TRUE, FALSE) ]

\* q1 as quoted to the cycles that begin after the first reading of the
\* clock: 0.70 / 0.30 on a larger volume
MovedQuote ==
  Detail("cq1", PricesText(<<"0", ".", "7", "0">>, <<"0", ".", "3", "0">>), <<>>,
         1500, TRUE, FALSE)

\* the live data the upstream serves for the market to the cycle whose
\* currentTimestamp is given
Fetched(market_id, currentTimestamp) ==
  IF market_id = "q1" /\ currentTimestamp > 1 THEN MovedQuote ELSE MarketData[market_id]

Details == {MarketData[m] : m \in DOMAIN MarketData} \cup {MovedQuote}

\* yes_price and no_price as the try / catch around JSON.parse leaves them
ParsePrices(marketData) ==
  LET parsed == JsonParse(marketData.outcomePrices)
      tokens == marketData.clobTokenIds
      priced(k) == Len(tokens) >= k /\ tokens[k].price # <<>>
  IN IF marketData.outcomePrices = <<>>
       THEN [yes_price |-> Num(0), no_price |-> Num(0)]
     ELSE IF parsed.throws
       THEN [yes_price |-> IF priced(1) THEN ParseFloat(tokens[1].price) ELSE Num(0),
             no_price |-> IF priced(2) THEN ParseFloat(tokens[2].price) ELSE Num(0)]
     ELSE IF parsed.isArray /\ Len(parsed.items) >= 2
       THEN [yes_price |-> ParseFloat(parsed.items[1]),
             no_price |-> ParseFloat(parsed.items[2])]
     ELSE [yes_price |-> Num(0), no_price |-> Num(0)]

\* ParsePrices of every record the upstream serves
ParsedPrices == [d \in Details |-> ParsePrices(d)]

\* parseFloat(marketData.volume24hr || marketData.volumeNum || 0)
Volume24h(marketData) == OrElse(OrElse(marketData.volume24hr, marketData.volumeNum), 0)

\* !price || isNaN(price)
NoPrice(price) == price.nan \/ price.v = 0

\* Math.abs
Abs(x) == IF x < 0 THEN 0 - x ELSE x

\* the object latestSnapshot, reduced to the columns the claims read
LatestSnapshot(market, marketData, yes_price, no_price, volume_24h, currentTimestamp) ==
  [market_id |-> market.market_id, condition_id |-> marketData.conditionId,
   event_id |-> market.event_id, snapshot_time |-> currentTimestamp,
   yes_price |-> yes_price, no_price |-> no_price, spread |-> Abs(yes_price - no_price),
   volume_24h |-> volume_24h, price_change_5min |-> Null, price_change_1h |-> Null,
   price_change_24h |-> Null, volume_change_24h |-> Null,
   status |-> IF marketData.active THEN "active" ELSE "closed"]

\* a stored first observation of an active market quoted 0.65 / 0.35
SnapshotRow(market_id, condition_id, event_id, time) ==
  LatestSnapshot([market_id |-> market_id, event_id |-> event_id],
                 [conditionId |-> condition_id, active |-> TRUE],
                 650000000, 350000000, 1000, time)

\* the tests without the validation of the prices
SkipsMarketUnvalidated(marketData) ==
  \/ ~marketData.ok
  \/ ~marketData.active /\ marketData.closed

\* the tests of the batch.map callback that skip a market
SkipsMarket(marketData) ==
  \/ ~marketData.ok
  \/ NoPrice(ParsedPrices[marketData].yes_price)
  \/ NoPrice(ParsedPrices[marketData].no_price)
  \/ ~marketData.active /\ marketData.closed

\* .eq('market_id', market_id).order('snapshot_time', descending).limit(1)
PreviousSnapshots(stored, market_id) ==
  {r \in stored : /\ r.market_id = market_id
                  /\ \A o \in stored : o.market_id = market_id
                                         => o.snapshot_time <= r.snapshot_time}

\* latestSnapshot with the changes against the previous snapshot, when the
\* query returned one
WithChanges(latestSnapshot, previousSnapshots) ==
  IF previousSnapshots = {} THEN latestSnapshot
  ELSE LET prev == CHOOSE r \in previousSnapshots : TRUE
       IN [latestSnapshot EXCEPT
             !.price_change_5min = Some(latestSnapshot.yes_price - prev.yes_price),
             !.volume_change_24h = Some(latestSnapshot.volume_24h - prev.volume_24h)]

\* the markets whose query for the previous snapshot may return an error
PreviousQueryFailures == {{}, {"q1"}}

\* what one batch pushes to snapshotsToInsert; failing are the markets whose
\* query for the previous snapshot returns an error and so no data
RECURSIVE BatchRows(_, _, _, _)
BatchRows(batch, currentTimestamp, stored, failing) ==
  IF batch = <<>> THEN <<>>
  ELSE LET market == Head(batch)
           marketData == Fetched(market.market_id, currentTimestamp)
           prices == ParsedPrices[marketData]
           latestSnapshot == LatestSnapshot(market, marketData, prices.yes_price.v,
                                            prices.no_price.v, Volume24h(marketData),
                                            currentTimestamp)
           previousSnapshots == IF market.market_id \in failing THEN {}
                                ELSE PreviousSnapshots(stored, market.market_id)
       IN (IF SkipsMarket(marketData) THEN <<>>
           ELSE << WithChanges(latestSnapshot, previousSnapshots) >>)
          \o BatchRows(Tail(batch), currentTimestamp, stored, failing)

\* trackedMarkets.slice(i, i + 10)
Slice(catalog, i) ==
  SubSeq(catalog, i + 1,
         IF i + SNAPSHOT_BATCH_SIZE < Len(catalog) THEN i + SNAPSHOT_BATCH_SIZE
                                                   ELSE Len(catalog))

\* processed lists the market ids of the batches the invocation has taken
IdleSnapshotCycle ==
  [ stage |-> "idle", currentTimestamp |-> 0, i |-> 0, batch |-> <<>>,
    snapshotsToInsert |-> <<>>, processed |-> <<>>, result |-> "none" ]

\* the code after the loop: the insert is issued when there is a row
AfterLoop(cy) ==
  IF cy.snapshotsToInsert # <<>>
    THEN [cy EXCEPT !.stage = "inserting", !.batch = <<>>]
    ELSE [cy EXCEPT !.stage = "done", !.batch = <<>>, !.result = "all_skipped"]

\* the loop test i < trackedMarkets.length and the slice of the next batch,
\* both on the catalog as it is now
EnterLoop(cy, catalog, i) ==
  IF i < Len(catalog)
    THEN [cy EXCEPT !.stage = "batch", !.i = i, !.batch = Slice(catalog, i)]
    ELSE AfterLoop([cy EXCEPT !.i = i])

\* entry of fetchAndStoreSnapshot up to its first await: discoverMarkets
\* when the catalog is empty, else the first batch
BeginSnapshot(s) ==
  /\ scycle[s].stage = "idle"
  /\ IF trackedMarkets = <<>>
       THEN /\ BeginDiscovery(s)
            /\ scycle' = [scycle EXCEPT ![s].stage = "discovering"]
            /\ UNCHANGED clock
       ELSE /\ scycle' = [scycle EXCEPT ![s] =
                 EnterLoop([IdleSnapshotCycle EXCEPT !.currentTimestamp = clock + 1],
                           trackedMarkets, 0)]
            /\ clock' = clock + 1
            /\ UNCHANGED disc

\* fetchAndStoreSnapshot is called
StartSnapshot(s) ==
  /\ BeginSnapshot(s)
  /\ UNCHANGED <<listing, trackedMarkets, tradeVars, snapshots, boot, retentionVars>>

\* the awaited discoverMarkets has returned
SnapshotDiscovered(s) ==
  /\ scycle[s].stage = "discovering"
  /\ disc[s].pc = "returned"
  /\ IF trackedMarkets = <<>>
       THEN /\ scycle' = [scycle EXCEPT ![s].stage = "done", ![s].result = "no_markets"]
            /\ UNCHANGED clock
       ELSE /\ scycle' = [scycle EXCEPT ![s] =
                 EnterLoop([IdleSnapshotCycle EXCEPT !.currentTimestamp = clock + 1],
                           trackedMarkets, 0)]
            /\ clock' = clock + 1
  /\ disc' = [disc EXCEPT ![s] = IdleDiscovery]
  /\ UNCHANGED <<listing, trackedMarkets, tradeVars, snapshots, boot, retentionVars>>

\* Promise.all of the batch has settled
SnapshotBatchReturn(s) ==
  /\ scycle[s].stage = "batch"
  /\ \E failing \in PreviousQueryFailures :
     LET cy == scycle[s]
         rows == BatchRows(cy.batch, cy.currentTimestamp, snapshots, failing)
         settled == [cy EXCEPT
                         !.snapshotsToInsert = @ \o rows,
                         !.processed = @ \o [k \in DOMAIN cy.batch |-> cy.batch[k].market_id]]
       IN scycle' = [scycle EXCEPT ![s] =
            IF cy.i + SNAPSHOT_BATCH_SIZE < Len(trackedMarkets)
              THEN [settled EXCEPT !.stage = "pause"]
              ELSE EnterLoop(settled, trackedMarkets, cy.i + SNAPSHOT_BATCH_SIZE)]
  /\ UNCHANGED <<catalogVars, tradeVars, snapshots, boot, clock, retentionVars>>

\* the 300 ms pause between batches is over
SnapshotPauseOver(s) ==
  /\ scycle[s].stage = "pause"
  /\ scycle' = [scycle EXCEPT ![s] =
       EnterLoop(scycle[s], trackedMarkets, scycle[s].i + SNAPSHOT_BATCH_SIZE)]
  /\ UNCHANGED <<catalogVars, tradeVars, snapshots, boot, clock, retentionVars>>

\* a value as a DECIMAL(10,8) column keeps it: rounded to 8 decimals, half
\* away from zero
Decimal_10_8(x) ==
  LET rounded == ((Abs(x) + 5) \div 10) * 10
  IN IF x < 0 THEN 0 - rounded ELSE rounded

\* the row as active_week_data keeps it
StoredRow(row) ==
  [row EXCEPT !.yes_price = Decimal_10_8(@), !.no_price = Decimal_10_8(@),
              !.spread = Decimal_10_8(@),
              !.price_change_5min = IF @ = Null THEN Null ELSE Some(Decimal_10_8(@[1]))]

\* chk_prices CHECK (yes_price >= 0 AND yes_price <= 1 AND no_price >= 0 AND
\* no_price <= 1)
ChkPrices(row) ==
  /\ row.yes_price >= 0 /\ row.yes_price <= UNIT
  /\ row.no_price >= 0 /\ row.no_price <= UNIT

\* chk_prices and unique_market_snapshot UNIQUE (market_id, snapshot_time),
\* on a plain multi-row insert: all rows or none
SnapshotInsertAccepted(stored, rows) ==
  /\ \A k \in DOMAIN rows : ChkPrices(StoredRow(rows[k]))
  /\ \A j, k \in DOMAIN rows :
       j # k => ~( rows[j].market_id = rows[k].market_id
                   /\ rows[j].snapshot_time = rows[k].snapshot_time )
  /\ \A k \in DOMAIN rows : \A r \in stored :
       ~( r.market_id = rows[k].market_id /\ r.snapshot_time = rows[k].snapshot_time )

\* the insert is executed by the store and its result returns
SnapshotInsertReturn(s) ==
  /\ scycle[s].stage = "inserting"
  /\ LET rows == scycle[s].snapshotsToInsert
     IN IF SnapshotInsertAccepted(snapshots, rows)
          THEN /\ snapshots' = snapshots \cup {StoredRow(rows[k]) : k \in DOMAIN rows}
               /\ scycle' = [scycle EXCEPT ![s].stage = "done", ![s].result = "inserted",
                                            ![s].snapshotsToInsert = <<>>]
          ELSE /\ snapshots' = snapshots
               /\ scycle' = [scycle EXCEPT ![s].stage = "done", ![s].result = "insert_error",
                                            ![s].snapshotsToInsert = <<>>]
  /\ UNCHANGED <<catalogVars, tradeVars, boot, clock, retentionVars>>

(***************************************************************************)
(* Upstream trade listing (data-api.polymarket.com/trades)                 *)
(***************************************************************************)
\* Trade records the upstream can publish.  market is the condition id the
\* record is listed under; transactionHash "" and amount 0 mean "absent".
\*   t1: 428736.26 shares at 0.001      t2: 99295.31 shares at 1.0
\*   t3, t4: two fills of one market in the same second on the same asset,
\*           without transaction hash
\*   t5: 5000 shares at 0.5
TradeUniverse ==
  { [market |-> "c1", transactionHash |-> "h1", timestamp |-> 1, asset |-> "a1",
     size |-> 42873626, amount |-> 0, price |-> 1, side |-> "BUY"],
    [market |-> "c1", transactionHash |-> "h2", timestamp |-> 2, asset |-> "a1",
     size |-> 9929531, amount |-> 0, price |-> 1000, side |-> "sell"],
    [market |-> "c1", transactionHash |-> "", timestamp |-> 2, asset |-> "a2",
     size |-> 1500000, amount |-> 0, price |-> 900, side |-> "BUY"],
    [market |-> "c1", transactionHash |-> "", timestamp |-> 2, asset |-> "a2",
     size |-> 0, amount |-> 2000000, price |-> 900, side |-> ""],
    [market |-> "c1", transactionHash |-> "h5", timestamp |-> 1, asset |-> "a3",
     size |-> 500000, amount |-> 0, price |-> 500, side |-> "SELL"] }

\* Trades no exchange should list: a side that is neither buy nor sell, a
\* price above 1
MalformedTrades ==
  { [market |-> "c1", transactionHash |-> "h6", timestamp |-> 3, asset |-> "a1",
     size |-> 2000000, amount |-> 0, price |-> 500, side |-> "hold"],
    [market |-> "c1", transactionHash |-> "h7", timestamp |-> 3, asset |-> "a1",
     size |-> 2000000, amount |-> 0, price |-> 1500, side |-> "BUY"] }

\* String.prototype.toUpperCase on the side values the upstream sends
ToUpperCase(s) ==
  CASE s = "buy" -> "BUY"
    [] s = "sell" -> "SELL"
    [] s = "hold" -> "HOLD"
    [] OTHER -> s

\* seconds -> milliseconds: new Date(t.timestamp * 1000); the ISO string
\* written to the timestamp column and read back by new Date(..).getTime()
\* denotes the same millisecond, which is what the rows carry here
TradeTime(t) == t.timestamp * 1000

\* parseFloat(t.size || t.amount || 0)
ParseSize(t) == OrElse(OrElse(t.size, t.amount), 0)

\* the composite for every record
TradeIdComposite(t, market) == <<"gen", market.market_id, t.timestamp, t.asset>>

\* t.transactionHash || `${market.market_id}-${t.timestamp}-${t.asset}`
TradeId(t, market) ==
  IF t.transactionHash # ""
    THEN <<"tx", t.transactionHash>>
    ELSE <<"gen", market.market_id, t.timestamp, t.asset>>

\* a filter that stores from the flagging threshold of large trades on
KeepsTradeFromLarge(t, latestTimestamp) ==
  TradeTime(t) > latestTimestamp /\ ParseSize(t) >= Dollars(LARGE_TRADE_THRESHOLD)

\* the .filter() predicate of fetchAndStoreTrades
KeepsTrade(t, latestTimestamp) ==
  TradeTime(t) > latestTimestamp /\ ParseSize(t) >= Dollars(MIN_TRADE_SIZE_TO_STORE)

\* the .map() callback of fetchAndStoreTrades
ToTradeRow(t, market) ==
  LET size == ParseSize(t)
      price == OrElse(t.price, 0)
  IN [ id |-> TradeId(t, market),
       market_id |-> market.market_id,
       event_id |-> market.event_id,
       asset_id |-> t.asset,
       side |-> IF ToUpperCase(t.side) # "" THEN ToUpperCase(t.side) ELSE "BUY",
       price |-> price,
       size |-> size,
       timestamp |-> TradeTime(t),
       is_large_trade |-> size >= Dollars(LARGE_TRADE_THRESHOLD),
       is_whale_trade |-> size >= Dollars(WHALE_TRADE_THRESHOLD),
       platform_data |-> t ]

(***************************************************************************)
(* The trades table (sql/create_trades_table.sql)                          *)
(***************************************************************************)
\* number of rows of the table that carry the identifier id
IdCount(table, id) ==
  LET S == {r \in BagToSet(table) : r.id = id}
  IN BagCardinality([r \in S |-> table[r]])

\* chk_size alone
TradeRowSized(r) == r.size > 0

\* chk_side, chk_price (price in thousandths), chk_size
TradeRowValid(r) ==
  /\ r.side \in {"BUY", "SELL"}
  /\ r.price >= 0 /\ r.price <= 1000
  /\ r.size > 0

\* one INSERT statement of several rows: it is applied as a whole, or it is
\* rejected as a whole when a row breaks a check constraint or the primary key
InsertAccepted(table, rows) ==
  /\ \A r \in rows : TradeRowValid(r)
  /\ \A r \in rows : IdCount(table, r.id) = 0
  /\ \A r1, r2 \in rows : r1.id = r2.id => r1 = r2

\* .order('timestamp', {ascending: false}).limit(1) for one market, then
\* latestStoredTrade?.[0]?.timestamp ? new Date(..).getTime() : 0
LatestTimestamp(table, market_id) ==
  LET S == {r.timestamp : r \in {x \in BagToSet(table) : x.market_id = market_id}}
  IN IF S = {} THEN 0 ELSE Max(S)

(***************************************************************************)
(* fetchAndStoreTrades                                                     *)
(***************************************************************************)
\* setInterval does not wait for the previous invocation to return: two
\* invocations can be in flight, and each slot is reused once it has returned
TradeCycles == {"A", "B"}

\* .order('snapshot_time', {ascending: false}): the rows in an order the
\* database may return them in (rows of equal snapshot_time in any order)
OrderedBySnapshotTimeDesc(rows) ==
  LET n == Cardinality(rows)
  IN { s \in [1..n -> rows] :
         /\ \A i, j \in 1..n : i # j => s[i] # s[j]
         /\ \A i, j \in 1..n : i < j => s[i].snapshot_time >= s[j].snapshot_time }

\* Array.from(new Map(markets.map(m => [m.market_id, m])).values()): one
\* entry per market_id, at the position of the key's first occurrence and
\* with the value of its last occurrence
UniqueMarkets(markets) ==
  LET n == Len(markets)
      firsts == {i \in 1..n : \A j \in 1..(i-1) : markets[j].market_id # markets[i].market_id}
      last(i) == Max({j \in 1..n : markets[j].market_id = markets[i].market_id})
      k == Cardinality(firsts)
      nth(q) == CHOOSE i \in firsts : Cardinality({j \in firsts : j < i}) = q - 1
  IN [q \in 1..k |-> markets[last(nth(q))]]

\* indexes (1-based) of uniqueMarkets.slice(i, i + 5)
TradeBatch(c, i) ==
  {k \in 1..Len(tcycle[c].markets) : k > i /\ k <= i + TRADE_BATCH_SIZE}

IdleTradeCycle ==
  [ stage |-> "idle", markets |-> <<>>, i |-> 0, task |-> <<>>,
    totalTrades |-> 0, largeTrades |-> 0, whaleTrades |-> 0, failedFetches |-> 0,
    after |-> {} ]

\* One batch.map callback.  fetched, latestTimestamp and newTrades are its
\* locals, kept as they were when it returned until the slot is reused;
\* raced records that this callback and the one of the other invocation for
\* the same market had both read the watermark before either inserted.
NoTask ==
  [pc |-> "pending", fetched |-> {}, latestTimestamp |-> 0, newTrades |-> {},
   result |-> "none", raced |-> FALSE]

\* the callback without the condition_id test
StartedTaskUnchecked(market) == [NoTask EXCEPT !.pc = "fetching"]

\* the synchronous prefix of the batch.map callback: markets without
\* condition_id are counted as failed, the others issue their fetch
StartedTask(market) ==
  IF market.condition_id = ""
    THEN [NoTask EXCEPT !.pc = "settled", !.result = "no_condition_id"]
    ELSE [NoTask EXCEPT !.pc = "fetching"]

\* the loop without batches: every remaining callback is started at once
EnterWholeList(cy, i) ==
  [cy EXCEPT !.i = i,
             !.task = [k \in 1..Len(cy.markets) |->
                         IF k > i THEN StartedTask(cy.markets[k]) ELSE cy.task[k]]]

\* the cycle record on entering the batch that starts at index i
EnterBatch(cy, i) ==
  LET batch == {k \in 1..Len(cy.markets) : k > i /\ k <= i + TRADE_BATCH_SIZE}
      missing == {k \in batch : cy.markets[k].condition_id = ""}
  IN [cy EXCEPT !.i = i,
                !.task = [k \in 1..Len(cy.markets) |->
                            IF k \in batch THEN StartedTask(cy.markets[k]) ELSE cy.task[k]],
                !.failedFetches = @ + Cardinality(missing)]

\* setInterval / setTimeout callback: a new invocation begins and issues the
\* query for the tracked markets; after remembers the invocations that had
\* already returned
BeginTradeCycle(c) ==
  /\ tcycle[c].stage \in {"idle", "done"}
  /\ tcycle' = [d \in DOMAIN tcycle |->
                 IF d = c
                   THEN [IdleTradeCycle EXCEPT
                           !.stage = "query",
                           !.after = {e \in TradeCycles \ {c} : tcycle[e].stage = "done"}]
                   ELSE [tcycle[d] EXCEPT
                           !.after = @ \ {c},
                           !.task = [k \in DOMAIN @ |-> [@[k] EXCEPT !.raced = FALSE]]]]

\* the interval timer of fetchAndStoreTrades fires
StartTradeCycle(c) ==
  /\ BeginTradeCycle(c)
  /\ UNCHANGED <<feed, trades, snapshots, catalogVars, schedVars, retentionVars>>

\* the market query returns: an error or an empty result ends the invocation
TradeQueryMarkets(c) ==
  /\ tcycle[c].stage = "query"
  /\ \/ /\ tcycle' = [tcycle EXCEPT ![c].stage = "done"]
     \/ /\ snapshots = {}
        /\ tcycle' = [tcycle EXCEPT ![c].stage = "done"]
     \/ /\ snapshots # {}
        /\ \E markets \in OrderedBySnapshotTimeDesc(snapshots) :
             LET um == UniqueMarkets(markets)
                 cy == [tcycle[c] EXCEPT !.stage = "run", !.markets = um,
                                         !.task = [k \in 1..Len(um) |-> NoTask]]
             IN tcycle' = [tcycle EXCEPT ![c] = EnterBatch(cy, 0)]
  /\ UNCHANGED <<feed, trades, snapshots, catalogVars, schedVars, retentionVars>>

\* the trades request of one market returns
TradeFetchReturn(c, k) ==
  /\ tcycle[c].stage = "run"
  /\ k \in TradeBatch(c, tcycle[c].i)
  /\ tcycle[c].task[k].pc = "fetching"
  /\ \/ \* !response.ok
        tcycle' = [tcycle EXCEPT ![c].task[k].pc = "settled", ![c].task[k].result = "fetch_not_ok",
                                 ![c].failedFetches = @ + 1]
     \/ \* fetch or response.json() throws: caught and logged
        tcycle' = [tcycle EXCEPT ![c].task[k].pc = "settled", ![c].task[k].result = "exception"]
     \/ LET fetched == {t \in feed : t.market = tcycle[c].markets[k].condition_id}
        IN IF fetched = {}
             THEN tcycle' = [tcycle EXCEPT ![c].task[k].pc = "settled", ![c].task[k].result = "no_trades"]
             ELSE tcycle' = [tcycle EXCEPT ![c].task[k].pc = "watermark",
                                           ![c].task[k].fetched = fetched]
  /\ UNCHANGED <<feed, trades, snapshots, catalogVars, schedVars, retentionVars>>

\* the latest-stored-trade query returns (its error is not inspected: no data
\* means latestTimestamp 0); the new trades are filtered and mapped and, when
\* there are any, the insert is issued
TradeWatermarkReturn(c, k) ==
  /\ tcycle[c].stage = "run"
  /\ k \in TradeBatch(c, tcycle[c].i)
  /\ tcycle[c].task[k].pc = "watermark"
  /\ \E latestTimestamp \in {LatestTimestamp(trades, tcycle[c].markets[k].market_id), 0} :
       LET market == tcycle[c].markets[k]
           kept == {t \in tcycle[c].task[k].fetched : KeepsTrade(t, latestTimestamp)}
           newTrades == {ToTradeRow(t, market) : t \in kept}
           rivals == {p \in TradeCycles \X (1..Cardinality(snapshots)) :
                        /\ p[1] # c /\ tcycle[p[1]].stage = "run"
                        /\ p[2] \in DOMAIN tcycle[p[1]].task
                        /\ tcycle[p[1]].markets[p[2]].market_id = market.market_id
                        /\ tcycle[p[1]].task[p[2]].pc = "inserting"}
       IN IF newTrades = {}
            THEN tcycle' = [tcycle EXCEPT ![c].task[k].pc = "settled",
                                          ![c].task[k].latestTimestamp = latestTimestamp,
                                          ![c].task[k].result = "nothing_new"]
            ELSE tcycle' = [d \in DOMAIN tcycle |->
                   [tcycle[d] EXCEPT !.task = [j \in DOMAIN @ |->
                      IF d = c /\ j = k
                        THEN [@[j] EXCEPT !.pc = "inserting",
                                          !.latestTimestamp = latestTimestamp,
                                          !.newTrades = newTrades,
                                          !.raced = (rivals # {})]
                        ELSE IF <<d, j>> \in rivals
                               THEN [@[j] EXCEPT !.raced = TRUE]
                               ELSE @[j]]]]
  /\ UNCHANGED <<feed, trades, snapshots, catalogVars, schedVars, retentionVars>>

\* the insert is executed by the store and its result returns
TradeInsertReturn(c, k) ==
  /\ tcycle[c].stage = "run"
  /\ k \in TradeBatch(c, tcycle[c].i)
  /\ tcycle[c].task[k].pc = "inserting"
  /\ LET newTrades == tcycle[c].task[k].newTrades
     IN IF InsertAccepted(trades, newTrades)
          THEN /\ trades' = trades (+) SetToBag(newTrades)
               /\ tcycle' = [tcycle EXCEPT
                    ![c].task[k].pc = "settled", ![c].task[k].result = "inserted",
                    ![c].totalTrades = @ + Cardinality(newTrades),
                    ![c].largeTrades = @ + Cardinality({r \in newTrades : r.is_large_trade}),
                    ![c].whaleTrades = @ + Cardinality({r \in newTrades : r.is_whale_trade})]
          ELSE /\ trades' = trades
               /\ tcycle' = [tcycle EXCEPT ![c].task[k].pc = "settled", ![c].task[k].result = "insert_error"]
  /\ UNCHANGED <<feed, snapshots, catalogVars, schedVars, retentionVars>>

\* Promise.all of the batch has settled and the 500 ms pause is over: the
\* next batch starts, or the invocation prints its summary and returns
TradeBatchDone(c) ==
  /\ tcycle[c].stage = "run"
  /\ \A k \in TradeBatch(c, tcycle[c].i) : tcycle[c].task[k].pc = "settled"
  /\ IF tcycle[c].i + TRADE_BATCH_SIZE < Len(tcycle[c].markets)
       THEN tcycle' = [tcycle EXCEPT ![c] = EnterBatch(tcycle[c], tcycle[c].i + TRADE_BATCH_SIZE)]
       ELSE tcycle' = [tcycle EXCEPT ![c].stage = "done"]
  /\ UNCHANGED <<feed, trades, snapshots, catalogVars, schedVars, retentionVars>>

\* the upstream lists one more trade
PublishTrade(t) ==
  /\ t \notin feed
  /\ feed' = feed \cup {t}
  /\ UNCHANGED <<trades, snapshots, tcycle, catalogVars, schedVars, retentionVars>>

(***************************************************************************)
(* cleanupOldData.  Time is counted in hours since start-up and passes one *)
(* cleanup interval at a time; the columns snapshot_time and timestamp     *)
(* hold milliseconds.  A sweep is over before the next interval elapses.   *)
(***************************************************************************)
\* 60 * 60 * 1000
HOUR_MS == 3600000

SNAPSHOT_HISTORY_DAYS == 7

TRADE_HISTORY_HOURS == 48

\* CLEANUP_INTERVAL_MS, in hours
CLEANUP_INTERVAL_HOURS == 6

\* Date.now()
NowMs == now * HOUR_MS

\* the cutoff one day too far back
SnapshotCutoffOffByOneDay(nowMs) == nowMs - (SNAPSHOT_HISTORY_DAYS + 1) * 24 * HOUR_MS

\* Date.now() - SNAPSHOT_HISTORY_DAYS * 24 * 60 * 60 * 1000
SnapshotCutoff(nowMs) == nowMs - SNAPSHOT_HISTORY_DAYS * 24 * HOUR_MS

\* the snapshot cutoff taken for the trades
CutoffOfSnapshotWindow(nowMs) == nowMs - SNAPSHOT_HISTORY_DAYS * 24 * HOUR_MS

\* Date.now() - TRADE_HISTORY_HOURS * 60 * 60 * 1000
TradeCutoff(nowMs) == nowMs - TRADE_HISTORY_HOURS * HOUR_MS

\* due: the interval timer has elapsed and its callback has not run yet;
\* deleted counts the rows the invocation's deletes removed
IdleSweep ==
  [ pc |-> "idle", due |-> FALSE, startedAt |-> 0,
    snapshotCutoff |-> 0, tradeCutoff |-> 0,
    snapshotResult |-> "none", tradeResult |-> "none", deleted |-> 0 ]

\* the delete with .gt in place of .lt
SnapshotsKeptWhenOlder(rows, snapshotCutoff) == {r \in rows : ~(r.snapshot_time > snapshotCutoff)}

\* .delete().lt('snapshot_time', snapshotCutoff)
SnapshotsKept(rows, snapshotCutoff) == {r \in rows : ~(r.snapshot_time < snapshotCutoff)}

\* an update that clears the whale flag of the expired rows, in place of the delete
TradesMarkedExpired(rows, tradeCutoff) ==
  SetToBag({ IF x.timestamp < tradeCutoff THEN [x EXCEPT !.is_whale_trade = FALSE] ELSE x
             : x \in BagToSet(rows) })

\* .delete().lt('timestamp', tradeCutoff), on the bag of trade rows
TradesKept(rows, tradeCutoff) ==
  [r \in {x \in BagToSet(rows) : ~(x.timestamp < tradeCutoff)} |-> rows[r]]

\* one cleanup interval elapses and the timer becomes due
IntervalElapses ==
  /\ sweep.pc \in {"idle", "done"}
  /\ ~sweep.due
  /\ now + CLEANUP_INTERVAL_HOURS <= MaxIntervals * CLEANUP_INTERVAL_HOURS
  /\ now' = now + CLEANUP_INTERVAL_HOURS
  /\ sweep' = [sweep EXCEPT !.due = TRUE]
  /\ UNCHANGED <<catalogVars, tradeVars, snapshots, schedVars>>

\* the interval timer of cleanupOldData fires: the snapshot delete is issued
CleanupTimerFires ==
  /\ sweep.due
  /\ sweep.pc \in {"idle", "done"}
  /\ sweep' = [IdleSweep EXCEPT !.pc = "snapshots", !.startedAt = NowMs,
                                !.snapshotCutoff = SnapshotCutoff(NowMs)]
  /\ UNCHANGED <<catalogVars, tradeVars, snapshots, schedVars, now>>

\* the snapshot delete returns (done, error returned, or exception thrown)
\* and, unless it threw, the trade delete is issued
CleanupSnapshotsReturn ==
  /\ sweep.pc = "snapshots"
  /\ \/ /\ snapshots' = SnapshotsKept(snapshots, sweep.snapshotCutoff)
        /\ sweep' = [sweep EXCEPT
             !.pc = "trades", !.snapshotResult = "ok",
             !.deleted = @ + Cardinality(snapshots)
                           - Cardinality(SnapshotsKept(snapshots, sweep.snapshotCutoff)),
             !.tradeCutoff = TradeCutoff(NowMs)]
     \/ /\ sweep' = [sweep EXCEPT !.pc = "trades", !.snapshotResult = "error",
                                  !.tradeCutoff = TradeCutoff(NowMs)]
        /\ UNCHANGED snapshots
     \/ /\ sweep' = [sweep EXCEPT !.pc = "done", !.snapshotResult = "exception"]
        /\ UNCHANGED snapshots
  /\ UNCHANGED <<catalogVars, tradeVars, schedVars, now>>

\* the trade delete returns
CleanupTradesReturn ==
  /\ sweep.pc = "trades"
  /\ \/ /\ trades' = TradesKept(trades, sweep.tradeCutoff)
        /\ sweep' = [sweep EXCEPT
             !.pc = "done", !.tradeResult = "ok",
             !.deleted = @ + BagCardinality(trades)
                           - BagCardinality(TradesKept(trades, sweep.tradeCutoff))]
     \/ /\ sweep' = [sweep EXCEPT !.pc = "done", !.tradeResult = "error"]
        /\ UNCHANGED trades
     \/ /\ sweep' = [sweep EXCEPT !.pc = "done", !.tradeResult = "exception"]
        /\ UNCHANGED trades
  /\ UNCHANGED <<catalogVars, feed, tcycle, snapshots, schedVars, now>>

\* a snapshot cycle running beside the sweep, taken from its start to the
\* return of its insert: a row of market m1 stamped with the current time
SnapshotCommitted(s) ==
  /\ scycle[s].stage = "idle"
  /\ LET latestSnapshot == WithChanges(SnapshotRow("m1", "c1", "e1", NowMs),
                                       PreviousSnapshots(snapshots, "m1"))
     IN /\ SnapshotInsertAccepted(snapshots, << latestSnapshot >>)
        /\ snapshots' = snapshots \cup { StoredRow(latestSnapshot) }
  /\ scycle' = [scycle EXCEPT ![s] =
       [IdleSnapshotCycle EXCEPT !.stage = "done", !.processed = <<"m1">>,
                                 !.result = "inserted"]]
  /\ UNCHANGED <<catalogVars, tradeVars, boot, clock, retentionVars>>

\* the upstream record of a trade of 20000 shares at 0.5 made at second ts
RecentTrade(ts) ==
  [market |-> "c1", transactionHash |-> "", timestamp |-> ts, asset |-> "a1",
   size |-> 2000000, amount |-> 0, price |-> 500, side |-> "BUY"]

\* a trade cycle running beside the sweep, taken from its start to its
\* return: a row of a trade made at the current time
TradeCommitted(c) ==
  LET row == ToTradeRow(RecentTrade(now * 3600), SnapshotRow("m1", "c1", "e1", 0))
  IN /\ tcycle[c].stage = "idle"
     /\ InsertAccepted(trades, {row})
     /\ trades' = trades (+) SetToBag({row})
     /\ tcycle' = [tcycle EXCEPT ![c] =
          [IdleTradeCycle EXCEPT !.stage = "done", !.totalTrades = 1,
                                 !.largeTrades = 1, !.whaleTrades = 1]]
     /\ UNCHANGED <<catalogVars, feed, snapshots, schedVars, retentionVars>>

(***************************************************************************)
(* Start-up code and timers.  boot.elapsed is the time in seconds since    *)
(* the timers were armed, advanced from one due time to the next and       *)
(* saturating at COLLECTION_INTERVAL, from where on it reads "at least     *)
(* that long".                                                             *)
(***************************************************************************)
\* setTimeout(.., 30 * 1000)
TRADE_START_DELAY == 30

\* COLLECTION_INTERVAL_MS / 1000
COLLECTION_INTERVAL == 60

InitialBoot == [pc |-> "init", elapsed |-> 0, tradesArmed |-> FALSE]

\* the async start-up function is entered: await discoverMarkets()
BootStart ==
  /\ boot.pc = "init"
  /\ BeginDiscovery("main")
  /\ boot' = [boot EXCEPT !.pc = "discovering"]
  /\ UNCHANGED <<listing, trackedMarkets, tradeVars, snapshots, scycle, clock, retentionVars>>

\* discoverMarkets has returned: fetchAndStoreSnapshot() is called without
\* await and the timers are armed
BootDiscovered ==
  /\ boot.pc = "discovering"
  /\ disc["main"].pc = "returned"
  /\ BeginSnapshot("S1")
  /\ boot' = [boot EXCEPT !.pc = "running"]
  /\ UNCHANGED <<listing, trackedMarkets, tradeVars, snapshots, retentionVars>>

\* time passes, up to the next due time of a timer
Tick ==
  /\ boot.pc = "running"
  /\ boot.elapsed < COLLECTION_INTERVAL
  /\ boot' = [boot EXCEPT !.elapsed = IF @ < TRADE_START_DELAY THEN TRADE_START_DELAY
                                                              ELSE COLLECTION_INTERVAL]
  /\ UNCHANGED <<catalogVars, tradeVars, snapshots, scycle, clock, retentionVars>>

\* the setTimeout callback: fetchAndStoreTrades() and its interval timer
TradeTimeoutFires ==
  /\ boot.pc = "running"
  /\ ~boot.tradesArmed
  /\ boot.elapsed >= TRADE_START_DELAY
  /\ BeginTradeCycle("A")
  /\ boot' = [boot EXCEPT !.tradesArmed = TRUE]
  /\ UNCHANGED <<catalogVars, feed, trades, snapshots, scycle, clock, retentionVars>>

\* setInterval(fetchAndStoreTrades, TRADE_COLLECTION_INTERVAL_MS)
TradeIntervalFires ==
  /\ boot.tradesArmed
  /\ boot.elapsed >= COLLECTION_INTERVAL
  /\ StartTradeCycle("B")

\* setInterval(fetchAndStoreSnapshot, COLLECTION_INTERVAL_MS)
SnapshotIntervalFires ==
  /\ boot.pc = "running"
  /\ boot.elapsed >= COLLECTION_INTERVAL
  /\ BeginSnapshot("S2")
  /\ UNCHANGED <<listing, trackedMarkets, tradeVars, snapshots, boot, retentionVars>>

\* setInterval(discoverMarkets, MARKET_REFRESH_INTERVAL_MS)
DiscoveryIntervalFires ==
  /\ boot.pc = "running"
  /\ boot.elapsed >= COLLECTION_INTERVAL
  /\ StartDiscovery("main")

\* the upstream lists the big event, or the big event with one more market
StartupListings == { <<EvBig1>>, <<EvBig2>> }

StartupInit ==
  /\ listing \in StartupListings
  /\ trackedMarkets = <<>>
  /\ disc = [d \in Discoverers |-> IdleDiscovery]
  /\ feed = {}
  /\ trades = EmptyBag
  /\ snapshots = {}
  /\ tcycle = [c \in TradeCycles |-> IdleTradeCycle]
  /\ scycle = [s \in SnapshotCycles |-> IdleSnapshotCycle]
  /\ boot = InitialBoot
  /\ clock = 0
  /\ now = 0
  /\ sweep = IdleSweep

StartupNext ==
  \/ \E l \in StartupListings : ListingChanges(l)
  \/ BootStart
  \/ BootDiscovered
  \/ Tick
  \/ TradeTimeoutFires
  \/ TradeIntervalFires
  \/ SnapshotIntervalFires
  \/ DiscoveryIntervalFires
  \/ \E d \in Discoverers : DiscoveryPageReturn(d)
  \/ \E s \in SnapshotCycles : SnapshotDiscovered(s)
  \/ \E s \in SnapshotCycles : SnapshotBatchReturn(s)
  \/ \E s \in SnapshotCycles : SnapshotPauseOver(s)
  \/ \E s \in SnapshotCycles : SnapshotInsertReturn(s)

StartupSpec == StartupInit /\ [][StartupNext]_vars

(***************************************************************************)
(* Launch: the module is loaded with the environment of .env.local, the    *)
(* credentials are checked, and only then the start-up function runs and   *)
(* arms the timers.  The store credentials are fields of the boot record.  *)
(***************************************************************************)
\* cleanup intervals that elapse while the launch is observed
MaxLaunchIntervals == 2

\* a process.env value: undefined, the empty string, or a configured value
EnvValues == { Null, Some(""), Some("configured") }

\* !value
Missing(value) == value = Null \/ value = Some("")

\* the module starts to load: config({ path: '.env.local' }) has been read
Loaded(supabaseUrl, supabaseKey) ==
  [ pc |-> "loading", elapsed |-> 0, tradesArmed |-> FALSE,
    supabaseUrl |-> supabaseUrl, supabaseKey |-> supabaseKey ]

\* the check that looks at the URL only
CheckEnvironmentUrlOnly ==
  /\ boot.pc = "loading"
  /\ boot' = [boot EXCEPT !.pc = IF Missing(boot.supabaseUrl) THEN "exited" ELSE "init"]
  /\ UNCHANGED <<catalogVars, tradeVars, snapshots, scycle, clock, retentionVars>>

\* if (!supabaseUrl || !supabaseKey) process.exit(1); otherwise createClient
\* and the module goes on to the start-up function
CheckEnvironment ==
  /\ boot.pc = "loading"
  /\ boot' = [boot EXCEPT !.pc = IF Missing(boot.supabaseUrl) \/ Missing(boot.supabaseKey)
                                   THEN "exited" ELSE "init"]
  /\ UNCHANGED <<catalogVars, tradeVars, snapshots, scycle, clock, retentionVars>>

\* setInterval(cleanupOldData, CLEANUP_INTERVAL_MS): an interval elapses
CleanupIntervalElapses ==
  /\ boot.pc = "running"
  /\ now < MaxLaunchIntervals * CLEANUP_INTERVAL_HOURS
  /\ IntervalElapses

\* setInterval(cleanupOldData, CLEANUP_INTERVAL_MS): the timer fires
CleanupIntervalFires ==
  /\ boot.pc = "running"
  /\ CleanupTimerFires

LaunchInit ==
  /\ listing = <<EvSolo>>
  /\ trackedMarkets = <<>>
  /\ disc = [d \in Discoverers |-> IdleDiscovery]
  /\ feed = {}
  /\ trades = EmptyBag
  /\ snapshots = {}
  /\ tcycle = [c \in TradeCycles |-> IdleTradeCycle]
  /\ scycle = [s \in SnapshotCycles |-> IdleSnapshotCycle]
  /\ \E supabaseUrl \in EnvValues : \E supabaseKey \in EnvValues :
        boot = Loaded(supabaseUrl, supabaseKey)
  /\ clock = 0
  /\ now = 0
  /\ sweep = IdleSweep

LaunchNext ==
  \/ CheckEnvironment
  \/ BootStart
  \/ BootDiscovered
  \/ Tick
  \/ TradeTimeoutFires
  \/ TradeIntervalFires
  \/ SnapshotIntervalFires
  \/ DiscoveryIntervalFires
  \/ CleanupIntervalElapses
  \/ CleanupIntervalFires
  \/ CleanupSnapshotsReturn
  \/ CleanupTradesReturn
  \/ \E d \in Discoverers : DiscoveryPageReturn(d)
  \/ \E s \in SnapshotCycles : SnapshotDiscovered(s)
  \/ \E s \in SnapshotCycles : SnapshotBatchReturn(s)
  \/ \E s \in SnapshotCycles : SnapshotInsertReturn(s)

LaunchSpec == LaunchInit /\ [][LaunchNext]_vars

(***************************************************************************)
(* The first round of every cycle of the launched service: the discovery   *)
(* and the snapshot of the start-up function, the trade cycle of the       *)
(* 30-second timer and the cleanup sweeps, under the scheduling the        *)
(* runtime guarantees: a timer that is due fires and code that is ready to *)
(* continue continues.  Nothing is assumed about the answers of the        *)
(* upstream and of the store: a request may never return.                  *)
(***************************************************************************)
StallNext ==
  \/ CheckEnvironment
  \/ BootStart
  \/ BootDiscovered
  \/ Tick
  \/ TradeTimeoutFires
  \/ CleanupIntervalElapses
  \/ CleanupIntervalFires
  \/ CleanupSnapshotsReturn
  \/ CleanupTradesReturn
  \/ \E d \in Discoverers : DiscoveryPageReturn(d)
  \/ SnapshotDiscovered("S1")
  \/ SnapshotBatchReturn("S1")
  \/ SnapshotInsertReturn("S1")
  \/ TradeQueryMarkets("A")
  \/ \E k \in 1..Len(tcycle["A"].markets) : TradeFetchReturn("A", k)
  \/ TradeBatchDone("A")

\* the steps the event loop takes on its own
Scheduled ==
  \/ CheckEnvironment
  \/ BootStart
  \/ BootDiscovered
  \/ Tick
  \/ TradeTimeoutFires
  \/ CleanupIntervalElapses
  \/ CleanupIntervalFires
  \/ SnapshotDiscovered("S1")
  \/ TradeBatchDone("A")

StallSpec == LaunchInit /\ [][StallNext]_vars /\ WF_vars(Scheduled)

(***************************************************************************)
(* Retention on its own: the service has just started on an empty store    *)
(***************************************************************************)
RetentionInit ==
  /\ listing = <<>>
  /\ trackedMarkets = <<>>
  /\ disc = [d \in Discoverers |-> IdleDiscovery]
  /\ feed = {}
  /\ trades = EmptyBag
  /\ snapshots = {}
  /\ tcycle = [c \in TradeCycles |-> IdleTradeCycle]
  /\ scycle = [s \in SnapshotCycles |-> IdleSnapshotCycle]
  /\ boot = InitialBoot
  /\ clock = 0
  /\ now = 0
  /\ sweep = IdleSweep

RetentionNext ==
  \/ IntervalElapses
  \/ CleanupTimerFires
  \/ CleanupSnapshotsReturn
  \/ CleanupTradesReturn
  \/ \E s \in SnapshotCycles : SnapshotCommitted(s)
  \/ TradeCommitted("A")

RetentionSpec == RetentionInit /\ [][RetentionNext]_vars

(***************************************************************************)
(* Two snapshot cycles started on an empty catalog, over the listing of    *)
(* the quote markets, or over a listing that has the market q1 under two   *)
(* events.                                                                 *)
(***************************************************************************)
QuoteListings == {<<EvQuotes>>, <<EvQuotes, EvOff>>, <<EvSolo, EvTwin>>}

SnapshotInit ==
  /\ listing \in QuoteListings
  /\ trackedMarkets = <<>>
  /\ disc = [d \in Discoverers |-> IdleDiscovery]
  /\ feed = {}
  /\ trades = EmptyBag
  /\ snapshots = {}
  /\ tcycle = [c \in TradeCycles |-> IdleTradeCycle]
  /\ scycle = [s \in SnapshotCycles |-> IdleSnapshotCycle]
  /\ boot = InitialBoot
  /\ clock = 0
  /\ now = 0
  /\ sweep = IdleSweep

SnapshotNext ==
  \/ \E s \in SnapshotCycles : StartSnapshot(s)
  \/ \E s \in SnapshotCycles : DiscoveryPageReturn(s)
  \/ \E s \in SnapshotCycles : SnapshotDiscovered(s)
  \/ \E s \in SnapshotCycles : SnapshotBatchReturn(s)
  \/ \E s \in SnapshotCycles : SnapshotPauseOver(s)
  \/ \E s \in SnapshotCycles : SnapshotInsertReturn(s)

SnapshotSpec == SnapshotInit /\ [][SnapshotNext]_vars

(***************************************************************************)
(* Trade ingestion on its own: the snapshot series already holds one row   *)
(* per market (one with a condition id, one without)                       *)
(***************************************************************************)
TradeInit ==
  /\ feed = {}
  /\ trades = EmptyBag
  /\ snapshots = { SnapshotRow("m1", "c1", "e1", 2), SnapshotRow("m3", "", "e2", 1) }
  /\ tcycle = [c \in TradeCycles |-> IdleTradeCycle]
  /\ listing = <<>>
  /\ trackedMarkets = <<>>
  /\ disc = [d \in Discoverers |-> IdleDiscovery]
  /\ scycle = [s \in SnapshotCycles |-> IdleSnapshotCycle]
  /\ boot = InitialBoot
  /\ clock = 0
  /\ now = 0
  /\ sweep = IdleSweep

TradeNext ==
  \/ \E t \in TradeUniverse : PublishTrade(t)
  \/ \E c \in TradeCycles : StartTradeCycle(c)
  \/ \E c \in TradeCycles : TradeQueryMarkets(c)
  \/ \E c \in TradeCycles : \E k \in 1..Len(tcycle[c].markets) : TradeFetchReturn(c, k)
  \/ \E c \in TradeCycles : \E k \in 1..Len(tcycle[c].markets) : TradeWatermarkReturn(c, k)
  \/ \E c \in TradeCycles : \E k \in 1..Len(tcycle[c].markets) : TradeInsertReturn(c, k)
  \/ \E c \in TradeCycles : TradeBatchDone(c)

TradeSpec == TradeInit /\ [][TradeNext]_vars

\* A trade of the market q7 (condition id cq7)
DuoTrades ==
  { [market |-> "cq7", transactionHash |-> "h8", timestamp |-> 1, asset |-> "a7",
     size |-> 2000000, amount |-> 0, price |-> 500, side |-> "BUY"] }

\* Discovery, snapshot cycles and a trade cycle over a listing that drops a
\* market
PollingListings == {<<EvDuo>>, <<EvSolo>>}

PollingInit ==
  /\ listing = <<EvDuo>>
  /\ trackedMarkets = <<>>
  /\ disc = [d \in Discoverers |-> IdleDiscovery]
  /\ feed = {}
  /\ trades = EmptyBag
  /\ snapshots = {}
  /\ tcycle = [c \in TradeCycles |-> IdleTradeCycle]
  /\ scycle = [s \in SnapshotCycles |-> IdleSnapshotCycle]
  /\ boot = InitialBoot
  /\ clock = 0
  /\ now = 0
  /\ sweep = IdleSweep

PollingNext ==
  \/ \E l \in PollingListings : ListingChanges(l)
  \/ StartDiscovery("main")
  \/ \E d \in Discoverers : DiscoveryPageReturn(d)
  \/ \E s \in SnapshotCycles : StartSnapshot(s)
  \/ \E s \in SnapshotCycles : SnapshotDiscovered(s)
  \/ \E s \in SnapshotCycles : SnapshotBatchReturn(s)
  \/ \E s \in SnapshotCycles : SnapshotInsertReturn(s)
  \/ \E t \in DuoTrades : PublishTrade(t)
  \/ StartTradeCycle("A")
  \/ TradeQueryMarkets("A")
  \/ \E k \in 1..Len(tcycle["A"].markets) : TradeFetchReturn("A", k)
  \/ \E k \in 1..Len(tcycle["A"].markets) : TradeWatermarkReturn("A", k)
  \/ \E k \in 1..Len(tcycle["A"].markets) : TradeInsertReturn("A", k)
  \/ TradeBatchDone("A")

PollingSpec == PollingInit /\ [][PollingNext]_vars

(***************************************************************************)
(* The service on a fresh store, or on a store that was filled before the  *)
(* condition_id column was added: the table then holds a snapshot of       *)
(* market q1 whose condition_id is NULL, and the cycles that follow store  *)
(* q1 with its condition id.                                               *)
(***************************************************************************)
\* the snapshot of q1 stored before ALTER TABLE .. ADD COLUMN condition_id
LegacySnapshot == StoredRow(SnapshotRow("q1", "", "ev_duo", 0))

MigratedInit ==
  /\ listing = <<EvSolo>>
  /\ trackedMarkets = <<>>
  /\ disc = [d \in Discoverers |-> IdleDiscovery]
  /\ feed = {}
  /\ trades = EmptyBag
  /\ snapshots \in {{}, {LegacySnapshot}}
  /\ tcycle = [c \in TradeCycles |-> IdleTradeCycle]
  /\ scycle = [s \in SnapshotCycles |-> IdleSnapshotCycle]
  /\ boot = InitialBoot
  /\ clock = 0
  /\ now = 0
  /\ sweep = IdleSweep

MigratedNext ==
  \/ StartDiscovery("main")
  \/ \E d \in Discoverers : DiscoveryPageReturn(d)
  \/ \E s \in SnapshotCycles : StartSnapshot(s)
  \/ \E s \in SnapshotCycles : SnapshotDiscovered(s)
  \/ \E s \in SnapshotCycles : SnapshotBatchReturn(s)
  \/ \E s \in SnapshotCycles : SnapshotInsertReturn(s)
  \/ \E c \in TradeCycles : StartTradeCycle(c)
  \/ \E c \in TradeCycles : TradeQueryMarkets(c)
  \/ \E c \in TradeCycles : \E k \in 1..Len(tcycle[c].markets) : TradeFetchReturn(c, k)
  \/ \E c \in TradeCycles : TradeBatchDone(c)

MigratedSpec == MigratedInit /\ [][MigratedNext]_vars

(***************************************************************************)
(* Cycles of more than one batch: a snapshot cycle over the catalog of the *)
(* eleven quote markets, and a trade cycle over a store that holds         *)
(* snapshots of six markets, each last stored by a different cycle.        *)
(***************************************************************************)
BatchedMarketIds == <<"q1", "q2", "q3", "q4", "q5", "q7">>

BatchedSnapshots ==
  { StoredRow(SnapshotRow(BatchedMarketIds[k], MarketData[BatchedMarketIds[k]].conditionId,
                          "ev_quotes", k)) : k \in DOMAIN BatchedMarketIds }

BatchedInit ==
  /\ listing = <<EvQuotes, EvOff>>
  /\ trackedMarkets = <<>>
  /\ disc = [d \in Discoverers |-> IdleDiscovery]
  /\ feed = {}
  /\ trades = EmptyBag
  /\ snapshots = BatchedSnapshots
  /\ tcycle = [c \in TradeCycles |-> IdleTradeCycle]
  /\ scycle = [s \in SnapshotCycles |-> IdleSnapshotCycle]
  /\ boot = InitialBoot
  /\ clock = Len(BatchedMarketIds)
  /\ now = 0
  /\ sweep = IdleSweep

BatchedNext ==
  \/ StartSnapshot("S1")
  \/ DiscoveryPageReturn("S1")
  \/ SnapshotDiscovered("S1")
  \/ SnapshotBatchReturn("S1")
  \/ SnapshotPauseOver("S1")
  \/ SnapshotInsertReturn("S1")
  \/ \E t \in DuoTrades : PublishTrade(t)
  \/ StartTradeCycle("A")
  \/ TradeQueryMarkets("A")
  \/ \E k \in 1..Len(tcycle["A"].markets) : TradeFetchReturn("A", k)
  \/ \E k \in 1..Len(tcycle["A"].markets) : TradeWatermarkReturn("A", k)
  \/ \E k \in 1..Len(tcycle["A"].markets) : TradeInsertReturn("A", k)
  \/ TradeBatchDone("A")

BatchedSpec == BatchedInit /\ [][BatchedNext]_vars

(***************************************************************************)
(* The timing of the trade polls of one market, in seconds since the       *)
(* timers were armed.  The interval timer is due every 5 minutes; the      *)
(* callback of the market computes tenMinutesAgo when its batch is         *)
(* reached, some seconds after the timer fired (market query, earlier      *)
(* batches, 500 ms pauses).  A tick is missed when the process is down at  *)
(* its due time.  The polls are kept in the boot record.                   *)
(***************************************************************************)
\* TRADE_COLLECTION_INTERVAL_MS / 1000
TRADE_COLLECTION_INTERVAL == 300

\* 10 * 60 * 1000, the lookback of the trades request in ms
LOOKBACK_MS == 600000

\* ticks of the interval timer that are followed
MaxTicks == 4

\* seconds between the timer firing and the request of the market
MaxDelay == 2

\* Math.floor((Date.now() - 10 * 60 * 1000) / 1000)
TenMinutesAgo(nowMs) == (nowMs - LOOKBACK_MS) \div 1000

\* the due time of the tick after n ticks: setTimeout(.., 30 * 1000), then
\* setInterval(fetchAndStoreTrades, TRADE_COLLECTION_INTERVAL_MS)
DueTime(n) == TRADE_START_DELAY + n * TRADE_COLLECTION_INTERVAL

\* the request ..&after=${tenMinutesAgo} issued at second at: the trades it
\* can return are those of the seconds after .. at
PollWindow(at) == [after |-> TenMinutesAgo(at * 1000), at |-> at]

\* the timer fires and, delay seconds later, the callback of the market
\* issues its trades request
TradePoll(delay) ==
  /\ boot.ticks < MaxTicks
  /\ boot' = [boot EXCEPT !.ticks = @ + 1,
                           !.polls = @ \cup {PollWindow(DueTime(boot.ticks) + delay)}]
  /\ UNCHANGED <<catalogVars, tradeVars, snapshots, scycle, clock, retentionVars>>

\* the process is down when the timer is due: the tick is missed
TradeTickMissed ==
  /\ boot.ticks < MaxTicks
  /\ boot.polls # {}
  /\ boot.missed = 0
  /\ boot' = [boot EXCEPT !.ticks = @ + 1, !.missed = 1]
  /\ UNCHANGED <<catalogVars, tradeVars, snapshots, scycle, clock, retentionVars>>

LookbackInit ==
  /\ listing = <<>>
  /\ trackedMarkets = <<>>
  /\ disc = [d \in Discoverers |-> IdleDiscovery]
  /\ feed = {}
  /\ trades = EmptyBag
  /\ snapshots = {}
  /\ tcycle = [c \in TradeCycles |-> IdleTradeCycle]
  /\ scycle = [s \in SnapshotCycles |-> IdleSnapshotCycle]
  /\ boot = [pc |-> "running", elapsed |-> 0, tradesArmed |-> TRUE,
             ticks |-> 0, missed |-> 0, polls |-> {}]
  /\ clock = 0
  /\ now = 0
  /\ sweep = IdleSweep

LookbackNext ==
  \/ \E delay \in 0..MaxDelay : TradePoll(delay)
  \/ TradeTickMissed

LookbackSpec == LookbackInit /\ [][LookbackNext]_vars

(***************************************************************************)
(* backfill-24h-whale-trades.ts: backfillWhaleTrades.  The run is the      *)
(* entry "backfill" of tcycle; its markets carry the token ids the market  *)
(* endpoint answered, fetched / newTrades of a task are allTrades /       *)
(* whaleTrades of the callback.                                            *)
(***************************************************************************)
\* const WHALE_THRESHOLD = 10000
WHALE_THRESHOLD == 10000

\* for (let i = 0; i < markets.length; i += 5)
BACKFILL_BATCH_SIZE == 5

\* clobTokenIds of the market endpoint
ClobTokenIds(market_id) == IF market_id = "m1" THEN {"a1", "a2"} ELSE {}

\* the snapshot rows as the markets of the run: the first row of each
\* market_id (marketMap.has -> continue), with its token ids, and only
\* markets that have token ids
BackfillMarkets(rows) ==
  LET firsts == {i \in 1..Len(rows) : \A j \in 1..(i-1) : rows[j].market_id # rows[i].market_id}
      kept == {i \in firsts : ClobTokenIds(rows[i].market_id) # {}}
      nth(q) == CHOOSE i \in kept : Cardinality({j \in kept : j < i}) = q - 1
  IN [q \in 1..Cardinality(kept) |->
        [market_id |-> rows[nth(q)].market_id, event_id |-> rows[nth(q)].event_id,
         token_ids |-> ClobTokenIds(rows[nth(q)].market_id)]]

\* t.transactionHash || `${t.asset}-${t.timestamp}`
BackfillTradeId(t) ==
  IF t.transactionHash # "" THEN <<"tx", t.transactionHash>> ELSE <<"gen", t.asset, t.timestamp>>

\* the .filter() predicate of backfillWhaleTrades
IsWhaleTrade(t) == ParseSize(t) >= Dollars(WHALE_THRESHOLD)

\* the .map() callback of backfillWhaleTrades
ToBackfillRow(t, market) ==
  LET size == ParseSize(t)
      price == OrElse(t.price, 0)
  IN [ id |-> BackfillTradeId(t),
       market_id |-> market.market_id,
       event_id |-> market.event_id,
       asset_id |-> "",
       side |-> IF ToUpperCase(t.side) # "" THEN ToUpperCase(t.side) ELSE "BUY",
       price |-> price,
       size |-> size,
       timestamp |-> TradeTime(t),
       is_large_trade |-> size >= Dollars(LARGE_TRADE_THRESHOLD),
       is_whale_trade |-> size >= Dollars(WHALE_THRESHOLD),
       platform_data |-> t ]

\* the run record on entering the batch that starts at index i
EnterBackfillBatch(run, i) ==
  [run EXCEPT !.i = i,
              !.task = [k \in 1..Len(run.markets) |->
                          IF k > i /\ k <= i + BACKFILL_BATCH_SIZE
                            THEN [NoTask EXCEPT !.pc = "fetching"]
                            ELSE run.task[k]]]

\* the script is run: it reads the snapshot rows, asks the market endpoint
\* for the token ids and starts the callbacks of the first batch
StartBackfill ==
  /\ tcycle["backfill"].stage \in {"idle", "done"}
  /\ \/ \* error || !snapshots
        /\ tcycle' = [tcycle EXCEPT !["backfill"] = [IdleTradeCycle EXCEPT !.stage = "done"]]
     \/ \E rows \in OrderedBySnapshotTimeDesc(snapshots) :
          LET markets == BackfillMarkets(rows)
              run == [IdleTradeCycle EXCEPT !.stage = IF markets = <<>> THEN "done" ELSE "run",
                                            !.markets = markets,
                                            !.task = [k \in 1..Len(markets) |-> NoTask]]
          IN tcycle' = [tcycle EXCEPT !["backfill"] = EnterBackfillBatch(run, 0)]
  /\ UNCHANGED <<feed, trades, snapshots, catalogVars, schedVars, retentionVars>>

\* the requests of one market (one per token id) have returned: the tokens
\* in answered had a 2xx response, each other one counts as failed fetch
BackfillFetchReturn(k, answered) ==
  /\ tcycle["backfill"].stage = "run"
  /\ k \in 1..Len(tcycle["backfill"].markets)
  /\ tcycle["backfill"].task[k].pc = "fetching"
  /\ LET market == tcycle["backfill"].markets[k]
         allTrades == {t \in feed : t.asset \in answered}
         whaleTrades == {ToBackfillRow(t, market) : t \in {x \in allTrades : IsWhaleTrade(x)}}
     IN /\ answered \subseteq market.token_ids
        /\ tcycle' = [tcycle EXCEPT
             !["backfill"].failedFetches = @ + Cardinality(market.token_ids \ answered),
             !["backfill"].task[k] =
                [@ EXCEPT !.fetched = allTrades, !.newTrades = whaleTrades,
                          !.pc = IF whaleTrades = {} THEN "settled" ELSE "inserting",
                          !.result = IF whaleTrades = {} THEN "nothing_new" ELSE "none"]]
  /\ UNCHANGED <<feed, trades, snapshots, catalogVars, schedVars, retentionVars>>

\* supabase.from('trades').insert(whaleTrades) returns: the rows are stored,
\* or the statement is rejected (23505 is not logged)
BackfillInsertReturn(k) ==
  /\ tcycle["backfill"].stage = "run"
  /\ k \in 1..Len(tcycle["backfill"].markets)
  /\ tcycle["backfill"].task[k].pc = "inserting"
  /\ LET whaleTrades == tcycle["backfill"].task[k].newTrades
     IN IF InsertAccepted(trades, whaleTrades)
          THEN /\ trades' = trades (+) SetToBag(whaleTrades)
               /\ tcycle' = [tcycle EXCEPT
                    !["backfill"].task[k].pc = "settled",
                    !["backfill"].task[k].result = "inserted",
                    !["backfill"].totalTrades = @ + Cardinality(whaleTrades),
                    !["backfill"].whaleTrades = @ + Cardinality(whaleTrades)]
          ELSE /\ trades' = trades
               /\ tcycle' = [tcycle EXCEPT !["backfill"].task[k].pc = "settled",
                                           !["backfill"].task[k].result = "insert_error"]
  /\ UNCHANGED <<feed, snapshots, catalogVars, schedVars, retentionVars>>

\* Promise.all of the batch has settled and the 500 ms pause is over
BackfillBatchDone ==
  /\ tcycle["backfill"].stage = "run"
  /\ \A k \in 1..Len(tcycle["backfill"].markets) :
       tcycle["backfill"].task[k].pc \in {"pending", "settled"}
  /\ IF tcycle["backfill"].i + BACKFILL_BATCH_SIZE < Len(tcycle["backfill"].markets)
       THEN tcycle' = [tcycle EXCEPT !["backfill"] =
                         EnterBackfillBatch(tcycle["backfill"], tcycle["backfill"].i + BACKFILL_BATCH_SIZE)]
       ELSE tcycle' = [tcycle EXCEPT !["backfill"].stage = "done"]
  /\ UNCHANGED <<feed, trades, snapshots, catalogVars, schedVars, retentionVars>>

\* whale trades of market m1 the upstream lists within the last 24 hours
BackfillUniverse ==
  { [market |-> "c1", transactionHash |-> "h1", timestamp |-> 1, asset |-> "a1",
     size |-> 42873626, amount |-> 0, price |-> 1, side |-> "BUY"],
    [market |-> "c1", transactionHash |-> "h6", timestamp |-> 3, asset |-> "a2",
     size |-> 2500000, amount |-> 0, price |-> 400, side |-> "SELL"],
    [market |-> "c1", transactionHash |-> "", timestamp |-> 2, asset |-> "a2",
     size |-> 1500000, amount |-> 0, price |-> 900, side |-> "BUY"] }

BackfillInit ==
  /\ feed = {}
  /\ trades = EmptyBag
  /\ snapshots = { SnapshotRow("m1", "c1", "e1", 2), SnapshotRow("m3", "", "e2", 1) }
  /\ tcycle = [c \in TradeCycles \cup {"backfill"} |-> IdleTradeCycle]
  /\ listing = <<>>
  /\ trackedMarkets = <<>>
  /\ disc = [d \in Discoverers |-> IdleDiscovery]
  /\ scycle = [s \in SnapshotCycles |-> IdleSnapshotCycle]
  /\ boot = InitialBoot
  /\ clock = 0
  /\ now = 0
  /\ sweep = IdleSweep

\* backfill runs next to one invocation of the collector's trade cycle
BackfillNext ==
  \/ \E t \in BackfillUniverse : PublishTrade(t)
  \/ StartBackfill
  \/ \E k \in 1..Len(tcycle["backfill"].markets) :
       \E answered \in SUBSET tcycle["backfill"].markets[k].token_ids : BackfillFetchReturn(k, answered)
  \/ \E k \in 1..Len(tcycle["backfill"].markets) : BackfillInsertReturn(k)
  \/ BackfillBatchDone
  \/ StartTradeCycle("A")
  \/ TradeQueryMarkets("A")
  \/ \E k \in 1..Len(tcycle["A"].markets) : TradeFetchReturn("A", k)
  \/ \E k \in 1..Len(tcycle["A"].markets) : TradeWatermarkReturn("A", k)
  \/ \E k \in 1..Len(tcycle["A"].markets) : TradeInsertReturn("A", k)
  \/ TradeBatchDone("A")

BackfillSpec == BackfillInit /\ [][BackfillNext]_vars

\* The trade cycles over a feed that may list malformed trades
LedgerUniverse == {t \in TradeUniverse : t.side \in {"sell", ""}} \cup MalformedTrades

LedgerNext ==
  \/ \E t \in LedgerUniverse : PublishTrade(t)
  \/ \E c \in TradeCycles : StartTradeCycle(c)
  \/ \E c \in TradeCycles : TradeQueryMarkets(c)
  \/ \E c \in TradeCycles : \E k \in 1..Len(tcycle[c].markets) : TradeFetchReturn(c, k)
  \/ \E c \in TradeCycles : \E k \in 1..Len(tcycle[c].markets) : TradeWatermarkReturn(c, k)
  \/ \E c \in TradeCycles : \E k \in 1..Len(tcycle[c].markets) : TradeInsertReturn(c, k)
  \/ \E c \in TradeCycles : TradeBatchDone(c)

LedgerSpec == TradeInit /\ [][LedgerNext]_vars

TypeOKTrades == \A c \in TradeCycles : tcycle[c].stage \in {"idle", "query", "run", "done"}

(***************************************************************************)
(* Claims on trade ingestion                                               *)
(***************************************************************************)
StoredTrades == BagToSet(trades)

\* the derived monetary value of an upstream record: shares x price
DerivedUsd(t) == UsdOf(ParseSize(t), OrElse(t.price, 0))

\* the callbacks (invocation, index) that have been started
TradeTasks == {p \in TradeCycles \X (1..Cardinality(snapshots)) : p[2] \in DOMAIN tcycle[p[1]].task}

TaskOf(p) == tcycle[p[1]].task[p[2]]

MarketOf(p) == tcycle[p[1]].markets[p[2]]

\* C1: every stored trade row carries as its monetary value the product
\* shares x price of its upstream record, never the raw size field.
C1_UsdIsSharesTimesPrice ==
  \A r \in StoredTrades : r.size = DerivedUsd(r.platform_data)

\* C2: every stored trade row has shares x price >= MIN_TRADE_SIZE_TO_STORE.
C2_StoredAtLeastMinimum ==
  \A r \in StoredTrades : DerivedUsd(r.platform_data) >= Dollars(MIN_TRADE_SIZE_TO_STORE)

\* C3: the flags of every stored row are computed from usd = shares x price:
\* is_large_trade iff usd >= LARGE_TRADE_THRESHOLD, is_whale_trade iff
\* usd >= WHALE_TRADE_THRESHOLD.
C3_FlagsFromDerivedUsd ==
  \A r \in StoredTrades :
    /\ r.is_large_trade <=> DerivedUsd(r.platform_data) >= Dollars(LARGE_TRADE_THRESHOLD)
    /\ r.is_whale_trade <=> DerivedUsd(r.platform_data) >= Dollars(WHALE_TRADE_THRESHOLD)

\* C4: when two successive invocations (the second started after the first
\* returned) have both been handed the same upstream record of at least the
\* minimum value for a market, the ledger holds exactly one row with that
\* record's identifier once the second has returned.
C4_OneRowAfterSuccessiveCycles ==
  \A p, q \in TradeTasks :
    ( /\ p[1] \in tcycle[q[1]].after
      /\ tcycle[p[1]].stage = "done" /\ tcycle[q[1]].stage = "done"
      /\ MarketOf(p).market_id = MarketOf(q).market_id )
    => \A t \in TaskOf(p).fetched \cap TaskOf(q).fetched :
         DerivedUsd(t) >= Dollars(MIN_TRADE_SIZE_TO_STORE)
           => IdCount(trades, TradeId(t, MarketOf(q))) = 1

\* C5: when two overlapping invocations have read the same watermark for a
\* market before either inserted, then after both inserts have returned the
\* ledger holds exactly one row for every identifier both tried to insert.
C5_OneRowAfterOverlappingCycles ==
  \A p, q \in TradeTasks :
    ( /\ p[1] # q[1]
      /\ MarketOf(p).market_id = MarketOf(q).market_id
      /\ TaskOf(p).raced /\ TaskOf(q).raced
      /\ TaskOf(p).latestTimestamp = TaskOf(q).latestTimestamp
      /\ TaskOf(p).result \in {"inserted", "insert_error"}
      /\ TaskOf(q).result \in {"inserted", "insert_error"} )
    => \A r \in TaskOf(p).newTrades :
         (\E r2 \in TaskOf(q).newTrades : r2.id = r.id) => IdCount(trades, r.id) = 1

\* C6: an insert of a batch in which some identifier is already stored
\* reports no error and stores every row whose identifier was not yet stored.
C6_DuplicateKeyIsNoOp ==
  [][ \A p \in TradeTasks :
        ( /\ TradeInsertReturn(p[1], p[2])
          /\ \E r \in TaskOf(p).newTrades : IdCount(trades, r.id) > 0 )
        => /\ tcycle'[p[1]].task[p[2]].result # "insert_error"
           /\ \A r \in TaskOf(p).newTrades :
                IdCount(trades, r.id) = 0 => IdCount(trades', r.id) = 1 ]_vars

(***************************************************************************)
(* Discovery on its own: the upstream lists up to MaxEvents events of the  *)
(* universe, in any order, and changes its listing at any time; two        *)
(* invocations of discoverMarkets can be in flight                         *)
(***************************************************************************)
Listings ==
  UNION { { l \in [1..n -> EventUniverse] : \A i, j \in 1..n : i # j => l[i] # l[j] }
          : n \in 0..MaxEvents }

DiscoveryInit ==
  /\ listing \in Listings
  /\ trackedMarkets = <<>>
  /\ disc = [d \in Discoverers |-> IdleDiscovery]
  /\ feed = {}
  /\ trades = EmptyBag
  /\ snapshots = {}
  /\ tcycle = [c \in TradeCycles |-> IdleTradeCycle]
  /\ scycle = [s \in SnapshotCycles |-> IdleSnapshotCycle]
  /\ boot = InitialBoot
  /\ clock = 0
  /\ now = 0
  /\ sweep = IdleSweep

DiscoveryNext ==
  \/ \E l \in Listings : ListingChanges(l)
  \/ \E d \in {"main", "S1"} : StartDiscovery(d)
  \/ \E d \in {"main", "S1"} : DiscoveryPageReturn(d)

DiscoverySpec == DiscoveryInit /\ [][DiscoveryNext]_vars

(***************************************************************************)
(* Claims on discovery                                                     *)
(***************************************************************************)
\* kw occurs in text at some position, letter case ignored
OccursCaseFolded(kw, text) ==
  \E i \in 1..Len(text) :
    /\ i + Len(kw) - 1 <= Len(text)
    /\ \A j \in 1..Len(kw) : LowerChar(text[i + j - 1]) = LowerChar(kw[j])

\* the searchable text of a candidate: question, description, parent-event
\* title and group label
Corpus(market, event) ==
  JoinWithSpace(market.question, market.description, event.title, market.groupItemTitle)

CandidateVolume(market) == IF market.volumeNum # 0 THEN market.volumeNum ELSE market.volume

MeetsClaimedFilter(market, event) ==
  /\ CandidateVolume(market) >= MIN_VOLUME_THRESHOLD
  /\ \A kw \in ExclusionKeywords : ~OccursCaseFolded(kw, Corpus(market, event))

\* the claimed criterion on each pair the upstream can list
ClaimedOutcome == [c \in UpstreamCandidates |-> MeetsClaimedFilter(c[1], c[2])]

\* the candidates (market, parent event) of a sequence of events
Candidates(events) ==
  UNION { { <<events[i].markets[k], events[i]>> : k \in DOMAIN events[i].markets }
          : i \in DOMAIN events }

InCatalog(catalog, market) ==
  \E i \in DOMAIN catalog : catalog[i].market_id = market.id

\* an invocation returns having replaced the catalog
Refreshes(d) ==
  /\ disc[d].pc = "fetching"
  /\ disc'[d].pc = "returned"
  /\ disc'[d].replaced

C10_CowboysExcluded ==
  \A i \in DOMAIN trackedMarkets :
    ~( trackedMarkets[i].market_question = TxtCowboys
       /\ trackedMarkets[i].volume_24h = 500000 )

(***************************************************************************)
(* Claims on the start-up order and on the catalog as snapshot cycles      *)
(* read it                                                                 *)
(***************************************************************************)
\* C7: no invocation of fetchAndStoreTrades has begun unless the awaited
\* start-up discovery has returned and an invocation of
\* fetchAndStoreSnapshot has run to its end, however long the first one takes.
C7_TradesStartAfterDiscoveryAndSnapshot ==
  (\E c \in TradeCycles : tcycle[c].stage # "idle") =>
    /\ boot.pc = "running"
    /\ \E s \in SnapshotCycles : scycle[s].stage = "done"

\* the market ids of a catalog, in order
MarketIds(catalog) == [k \in DOMAIN catalog |-> catalog[k].market_id]

\* the catalogs a refresh can assign under StartupListings
CatalogVersions == { QualifyingMarkets(l) : l \in StartupListings }

IsPrefix(p, q) == Len(p) <= Len(q) /\ SubSeq(q, 1, Len(p)) = p

\* C8: the markets a snapshot cycle has processed are batches of one
\* catalog version, never batches taken from two versions.
C8_BatchesOfOneCatalogVersion ==
  \A s \in SnapshotCycles :
    \E v \in CatalogVersions : IsPrefix(scycle[s].processed, MarketIds(v))

(***************************************************************************)
(* Claims on the determinism of discovery                                  *)
(***************************************************************************)
\* the elements of a sequence
Elements(seq) == {seq[k] : k \in DOMAIN seq}

\* the invocations that have returned after assigning the catalog
Refreshed == {d \in Discoverers : disc[d].pc = "returned" /\ disc[d].replaced}

\* C11: two refreshes that fetched the same set of events, in whatever
\* order and over whatever catalog, returned the same set of market_ids.
C11_SameResponsesSameQualifyingSet ==
  \A d1, d2 \in Refreshed :
    Elements(disc[d1].allEvents) = Elements(disc[d2].allEvents)
      => Elements(MarketIds(disc[d1].result)) = Elements(MarketIds(disc[d2].result))

\* two refreshes have fetched the same two events in opposite orders and
\* returned a non-empty catalog
C11_Witness ==
  \E d1, d2 \in Refreshed :
    /\ disc[d1].allEvents # disc[d2].allEvents
    /\ Len(disc[d1].allEvents) = 2
    /\ Elements(disc[d1].allEvents) = Elements(disc[d2].allEvents)
    /\ disc[d1].result # <<>>

C13_RowsInsideWindowUntouched ==
  [][ /\ \A r \in snapshots :
           r.snapshot_time >= NowMs - 604800000 => r \in snapshots'
      /\ \A r \in BagToSet(trades) :
           r.timestamp >= NowMs - 172800000
             => r \in BagToSet(trades') /\ trades'[r] = trades[r] ]_vars

\* a sweep that removed a row from the snapshots is awaiting its trade
\* delete while the store holds a snapshot and a trade committed since it began
C13_Witness ==
  /\ sweep.pc = "trades" /\ sweep.snapshotResult = "ok" /\ sweep.deleted = 1
  /\ \E r \in snapshots : r.snapshot_time = sweep.startedAt
  /\ \E r \in BagToSet(trades) : r.timestamp = sweep.startedAt

C15_SpreadAndPricesWellFormed ==
  \A r \in snapshots :
    /\ r.spread = (IF r.yes_price >= r.no_price THEN r.yes_price - r.no_price
                                                ELSE r.no_price - r.yes_price)
    /\ 0 <= r.yes_price /\ r.yes_price <= 1000000000
    /\ 0 <= r.no_price /\ r.no_price <= 1000000000

\* C16: every stored trade row has a price between 0 and 1 and the side BUY
\* or SELL, whatever the upstream record holds.
C16_LedgerRowsWellFormed ==
  \A r \in BagToSet(trades) :
    /\ 0 <= r.price /\ r.price <= 1000
    /\ r.side = "BUY" \/ r.side = "SELL"

\* a trade listed without side is stored as BUY and one listed as sell as
\* SELL, while an insert that carried a malformed trade has been rejected
C16_Witness ==
  /\ \E r \in BagToSet(trades) : r.platform_data.side = "" /\ r.side = "BUY"
  /\ \E r \in BagToSet(trades) : r.platform_data.side = "sell" /\ r.side = "SELL"
  /\ \E c \in TradeCycles : \E k \in DOMAIN tcycle[c].task :
       /\ tcycle[c].task[k].result = "insert_error"
       /\ \E r \in tcycle[c].task[k].newTrades : r.platform_data \in MalformedTrades

\* the market ids of the batches the cycle has taken
Processed(s) == {scycle[s].processed[k] : k \in DOMAIN scycle[s].processed}

\* C17: no snapshot row is stored for a market whose live data, as served
\* to the cycle that wrote the row, reports it inactive or closed.
C17_InactiveOrClosedSkipped ==
  \A r \in snapshots :
    LET marketData == Fetched(r.market_id, r.snapshot_time)
    IN marketData.active /\ ~marketData.closed

\* a price that is missing, NaN or zero
Unpriced(price) == price.nan \/ price.v = 0

\* C18: no snapshot row is stored, or waits to be inserted, for a market
\* whose parsed yes_price or no_price is missing, NaN or zero in the live
\* data served to the cycle.
C18_UnpricedMarketsSkipped ==
  /\ \A r \in snapshots :
       LET prices == ParsePrices(Fetched(r.market_id, r.snapshot_time))
       IN ~Unpriced(prices.yes_price) /\ ~Unpriced(prices.no_price)
  /\ \A s \in SnapshotCycles : \A k \in DOMAIN scycle[s].snapshotsToInsert :
       LET r == scycle[s].snapshotsToInsert[k]
           prices == ParsePrices(Fetched(r.market_id, r.snapshot_time))
       IN ~Unpriced(prices.yes_price) /\ ~Unpriced(prices.no_price)

\* a cycle that met markets without outcomePrices, with a zero price, with a
\* price that is no number and with one price only has stored its snapshot
\* of q1 and none of theirs
C18_Witness ==
  \E s \in SnapshotCycles :
    /\ scycle[s].stage = "done" /\ scycle[s].result = "inserted"
    /\ {"q2", "q4", "q5", "q10"} \subseteq Processed(s)
    /\ \E r \in snapshots :
         r.market_id = "q1" /\ r.snapshot_time = scycle[s].currentTimestamp
    /\ ~ \E r \in snapshots : r.market_id \in {"q2", "q4", "q5", "q10"}

\* the live data has no usable outcomePrices (absent, or JSON.parse rejects
\* it) and its clobTokenIds carry two prices that are numbers other than 0
FallsBack(marketData) ==
  /\ marketData.ok
  /\ marketData.outcomePrices = <<>> \/ JsonParse(marketData.outcomePrices).throws
  /\ Len(marketData.clobTokenIds) >= 2
  /\ \A k \in 1..2 : ~Unpriced(ParseFloat(marketData.clobTokenIds[k].price))

\* C19: a cycle that has stored its rows has stored, for every market it
\* processed whose outcomePrices is absent or does not parse while
\* clobTokenIds carries valid prices, a snapshot with those prices.
C19_FallsBackToTokenPrices ==
  \A s \in SnapshotCycles :
    scycle[s].stage = "done" /\ scycle[s].result = "inserted" =>
      \A m \in Processed(s) :
        LET marketData == Fetched(m, scycle[s].currentTimestamp)
        IN FallsBack(marketData) /\ marketData.active /\ ~marketData.closed =>
             \E r \in snapshots :
               /\ r.market_id = m /\ r.snapshot_time = scycle[s].currentTimestamp
               /\ r.yes_price = ParseFloat(marketData.clobTokenIds[1].price).v
               /\ r.no_price = ParseFloat(marketData.clobTokenIds[2].price).v

\* C20: a row a cycle adds to its rows has price_change_5min and
\* volume_change_24h null exactly when the store holds no snapshot of the
\* market at that moment, and else the difference of its yes_price (its
\* volume_24h) and that of the market's stored snapshot of latest
\* snapshot_time.
C20_ChangesAgainstPriorSnapshot ==
  [][ \A s \in SnapshotCycles :
        scycle[s].stage = "batch" =>
          \A k \in (Len(scycle[s].snapshotsToInsert) + 1)..Len(scycle'[s].snapshotsToInsert) :
            LET row == scycle'[s].snapshotsToInsert[k]
                prior == {r \in snapshots : r.market_id = row.market_id}
                last == CHOOSE r \in prior : \A o \in prior : o.snapshot_time <= r.snapshot_time
            IN IF prior = {}
                 THEN row.price_change_5min = <<>> /\ row.volume_change_24h = <<>>
                 ELSE /\ row.price_change_5min = <<row.yes_price - last.yes_price>>
                      /\ row.volume_change_24h = <<row.volume_24h - last.volume_24h>> ]_vars

\* C21: a stored snapshot of a market of which the series holds a snapshot
\* taken at least 1 hour (24 hours) earlier carries a price_change_1h
\* (price_change_24h) that is not null.
C21_HourAndDayChangesCalculated ==
  \A r, o \in snapshots :
    o.market_id = r.market_id =>
      /\ o.snapshot_time + 3600000 <= r.snapshot_time => r.price_change_1h # <<>>
      /\ o.snapshot_time + 86400000 <= r.snapshot_time => r.price_change_24h # <<>>

\* the live data passes the checks of the cycle and its prices lie in [0, 1]
Storable(marketData) ==
  LET prices == ParsePrices(marketData)
  IN /\ marketData.ok
     /\ ~Unpriced(prices.yes_price) /\ ~Unpriced(prices.no_price)
     /\ ~(~marketData.active /\ marketData.closed)
     /\ 0 <= prices.yes_price.v /\ prices.yes_price.v <= 1000000000
     /\ 0 <= prices.no_price.v /\ prices.no_price.v <= 1000000000

\* C22: a snapshot cycle that has returned from its insert has stored a
\* snapshot of every market it processed whose live data is valid, whatever
\* failed for the other markets of the cycle.
C22_OtherMarketsStillStored ==
  \A s \in SnapshotCycles :
    scycle[s].stage = "done" /\ scycle[s].result \in {"inserted", "insert_error"} =>
      \A m \in Processed(s) :
        Storable(Fetched(m, scycle[s].currentTimestamp)) =>
          \E r \in snapshots :
            r.market_id = m /\ r.snapshot_time = scycle[s].currentTimestamp

(***************************************************************************)
(* Claims on the failures of a trade cycle                                 *)
(***************************************************************************)
\* the callbacks of invocation c that ended with the given result
TasksEnded(c, result) == {k \in DOMAIN tcycle[c].task : tcycle[c].task[k].result = result}

\* C23: for a market without condition_id a trade cycle issues no request
\* and builds no row, no trade is stored for it, it adds one to
\* failedFetches, and the cycle settles the callbacks of all its markets
\* before it returns.
C23_NoConditionIdNeverPolled ==
  /\ \A c \in TradeCycles : \A k \in DOMAIN tcycle[c].task :
       tcycle[c].markets[k].condition_id = "" =>
         /\ tcycle[c].task[k].pc \in {"pending", "settled"}
         /\ tcycle[c].task[k].fetched = {} /\ tcycle[c].task[k].newTrades = {}
         /\ tcycle[c].task[k].pc = "settled" => tcycle[c].task[k].result = "no_condition_id"
  /\ \A c \in TradeCycles :
       Cardinality(TasksEnded(c, "no_condition_id"))
         = tcycle[c].failedFetches - Cardinality(TasksEnded(c, "fetch_not_ok"))
  /\ \A r \in BagToSet(trades) :
       \E row \in snapshots : row.market_id = r.market_id /\ row.condition_id # ""
  /\ \A c \in TradeCycles :
       tcycle[c].stage = "done" =>
         \A k \in DOMAIN tcycle[c].task : tcycle[c].task[k].pc = "settled"

\* a cycle has returned that counted the market without condition_id as its
\* one failure and stored a trade of the other market
C23_Witness ==
  \E c \in TradeCycles :
    /\ tcycle[c].stage = "done" /\ tcycle[c].failedFetches = 1
    /\ TasksEnded(c, "no_condition_id") # {}
    /\ TasksEnded(c, "inserted") # {}

\* C24: failedFetches of a trade cycle counts once every market whose
\* trades request failed: the response was not ok, or the request or the
\* reading of its payload threw (besides the markets without condition_id).
C24_EveryFailedFetchCounted ==
  \A c \in TradeCycles :
    tcycle[c].failedFetches
      = Cardinality(TasksEnded(c, "no_condition_id"))
        + Cardinality(TasksEnded(c, "fetch_not_ok"))
        + Cardinality(TasksEnded(c, "exception"))

\* the greatest timestamp among the stored trades of a market, 0 if none
GreatestStored(market_id) ==
  LET stamps == {r.timestamp : r \in {x \in BagToSet(trades) : x.market_id = market_id}}
  IN IF stamps = {} THEN 0 ELSE CHOOSE t \in stamps : \A u \in stamps : u <= t

\* C25: when a callback of a trade cycle has read its watermark, the
\* watermark is the greatest timestamp among the trades stored for its
\* market at that moment (0 if none) and every row it goes on to insert has a
\* timestamp strictly greater.
C25_WatermarkIsGreatestStored ==
  [][ \A c \in TradeCycles : \A k \in DOMAIN tcycle[c].task :
        ( /\ tcycle[c].task[k].pc = "watermark"
          /\ k \in DOMAIN tcycle'[c].task
          /\ tcycle'[c].task[k].pc # "watermark" )
        => /\ tcycle'[c].task[k].latestTimestamp
                = GreatestStored(tcycle[c].markets[k].market_id)
           /\ \A r \in tcycle'[c].task[k].newTrades :
                r.timestamp > GreatestStored(tcycle[c].markets[k].market_id) ]_vars

\* C26: the markets a trade cycle sets out to poll are markets of the
\* catalog as it is when the cycle takes them.
C26_PollsCatalogMarketsOnly ==
  [][ \A c \in TradeCycles :
        tcycle[c].stage = "query" /\ tcycle'[c].stage = "run" /\ trackedMarkets # <<>> =>
          \A k \in DOMAIN tcycle'[c].markets :
            \E j \in DOMAIN trackedMarkets :
              trackedMarkets[j].market_id = tcycle'[c].markets[k].market_id ]_vars

\* the rows the callbacks of the trade cycles have built
BuiltRows ==
  UNION {UNION {tcycle[c].task[k].newTrades : k \in DOMAIN tcycle[c].task} : c \in TradeCycles}

\* C27: the identifier of every row built or stored is the transaction hash
\* of its upstream record when it has one, else the composite of market_id,
\* timestamp and asset; rows of the same record and market carry the same
\* identifier in whichever cycle they were built.
C27_IdentifierFromRecordAlone ==
  /\ \A r \in BuiltRows \cup BagToSet(trades) :
       r.id = IF r.platform_data.transactionHash # ""
                THEN <<"tx", r.platform_data.transactionHash>>
                ELSE <<"gen", r.market_id, r.platform_data.timestamp, r.platform_data.asset>>
  /\ \A r1, r2 \in BuiltRows \cup BagToSet(trades) :
       r1.platform_data = r2.platform_data /\ r1.market_id = r2.market_id => r1.id = r2.id

\* a record with a hash and one without are stored, and both invocations
\* have built a row of the same record
C27_Witness ==
  /\ \E r \in BagToSet(trades) : r.platform_data.transactionHash # ""
  /\ \E r \in BagToSet(trades) : r.platform_data.transactionHash = ""
  /\ \E k1 \in DOMAIN tcycle["A"].task : \E k2 \in DOMAIN tcycle["B"].task :
       \E r1 \in tcycle["A"].task[k1].newTrades : \E r2 \in tcycle["B"].task[k2].newTrades :
         r1.platform_data = r2.platform_data

\* C28: when a refresh stops paging (a page request failed, or the listing is
\* exhausted), the events accumulated from the earlier pages are filtered and
\* become the catalog.
C28_FailedPageKeepsAccumulated ==
  [][\A d \in Discoverers :
       (disc[d].pc = "fetching" /\ disc'[d].pc = "returned")
         => trackedMarkets' = QualifyingMarkets(disc[d].allEvents)]_vars

\* C29: when the store URL or the store key is missing at start-up, the
\* process never gets past the environment check: no discovery, snapshot,
\* trade or cleanup task is started or scheduled, no listing request is made
\* and the store is neither read nor written.
C29_MissingCredentialsAbort ==
  (Missing(boot.supabaseUrl) \/ Missing(boot.supabaseKey))
    => /\ boot.pc \in {"loading", "exited"}
       /\ ~boot.tradesArmed
       /\ \A d \in Discoverers : disc[d] = IdleDiscovery
       /\ \A s \in SnapshotCycles : scycle[s] = IdleSnapshotCycle
       /\ \A c \in TradeCycles : tcycle[c] = IdleTradeCycle
       /\ sweep = IdleSweep
       /\ trackedMarkets = <<>>
       /\ snapshots = {}
       /\ trades = EmptyBag

\* the key is missing, the URL is not, and the process has exited
C29_Witness ==
  /\ boot.pc = "exited"
  /\ ~Missing(boot.supabaseUrl)
  /\ Missing(boot.supabaseKey)

\* C30: every discovery, snapshot, trade and cleanup cycle that has started
\* comes to its end, whatever the upstream and the store do with the
\* requests of the cycle (each request being cut off by a timeout).
C30_EveryCycleTerminates ==
  /\ \A d \in Discoverers : (disc[d].pc = "fetching") ~> (disc[d].pc # "fetching")
  /\ \A s \in SnapshotCycles :
        (scycle[s].stage \notin {"idle", "done"}) ~> (scycle[s].stage = "done")
  /\ \A c \in TradeCycles :
        (tcycle[c].stage \notin {"idle", "done"}) ~> (tcycle[c].stage = "done")
  /\ (sweep.pc \notin {"idle", "done"}) ~> (sweep.pc = "done")

\* C31: no step modifies a stored row.  A step only adds snapshot rows or only
\* removes them, and likewise for trade rows; a row that is in the table
\* before and after a step (same market_id and snapshot_time, resp. same id)
\* has the same field values.
C31_RowsNeverModified ==
  [][ /\ (snapshots \subseteq snapshots' \/ snapshots' \subseteq snapshots)
      /\ \A r \in snapshots : \A r2 \in snapshots' :
            (r.market_id = r2.market_id /\ r.snapshot_time = r2.snapshot_time) => r2 = r
      /\ (BagToSet(trades) \subseteq BagToSet(trades')
            \/ BagToSet(trades') \subseteq BagToSet(trades))
      /\ \A r \in BagToSet(trades) : \A r2 \in BagToSet(trades') :
            r.id = r2.id => r2 = r ]_vars

\* a sweep has deleted rows and left newer snapshot and trade rows in place
C31_Witness ==
  /\ sweep.pc = "done"
  /\ sweep.deleted > 0
  /\ snapshots # {}
  /\ trades # EmptyBag

\* the rows of a market that no other row of that market is newer than
LatestRows(stored, market_id) ==
  {r \in stored : /\ r.market_id = market_id
                  /\ \A o \in stored : o.market_id = market_id
                                         => o.snapshot_time <= r.snapshot_time}

\* C32: when the market query of a trade cycle returns, the entry the cycle
\* keeps for each market carries the condition_id and event_id of that
\* market's most recent snapshot in the store (so a market whose latest
\* snapshot has a condition_id gets a condition_id, and is polled).
C32_UsesLatestSnapshot ==
  [][ \A c \in TradeCycles :
        (tcycle[c].stage = "query" /\ tcycle'[c].stage = "run")
          => \A k \in DOMAIN tcycle'[c].markets :
               \E r \in LatestRows(snapshots, tcycle'[c].markets[k].market_id) :
                 /\ r.condition_id = tcycle'[c].markets[k].condition_id
                 /\ r.event_id = tcycle'[c].markets[k].event_id ]_vars

\* a row of the ledger was made from the upstream record t
Stored(t) == \E r \in BagToSet(trades) : r.platform_data = t

\* C33: a trade of at least MIN_TRADE_SIZE_TO_STORE that a finished fetch of a
\* trade cycle returned is in the ledger, or it is still newer than the
\* market's watermark, so that a later cycle whose fetch returns it again
\* keeps it and stores it: no such trade is shut out of the ledger.
C33_FetchedTradeNotShutOut ==
  \A c \in TradeCycles : \A k \in DOMAIN tcycle[c].task :
    (tcycle[c].task[k].pc = "settled" /\ tcycle[c].task[k].result = "nothing_new")
      => \A t \in tcycle[c].task[k].fetched :
           (ParseSize(t) >= Dollars(MIN_TRADE_SIZE_TO_STORE) /\ ~Stored(t))
             => KeepsTrade(t, LatestTimestamp(trades, tcycle[c].markets[k].market_id))

\* C34: two rows that the trade cycles build from different upstream records
\* (different fills) never carry the same identifier.
C34_DistinctFillsDistinctIds ==
  \A r1 \in BuiltRows : \A r2 \in BuiltRows :
    r1.platform_data # r2.platform_data => r1.id # r2.id

\* C35: the rows a snapshot cycle has collected for its insert hold at most
\* one row per market_id (all of them carry the cycle's snapshot_time).
C35_OneRowPerMarketInBatch ==
  \A s \in SnapshotCycles :
    \A j, k \in DOMAIN scycle[s].snapshotsToInsert :
      j # k => scycle[s].snapshotsToInsert[j].market_id # scycle[s].snapshotsToInsert[k].market_id

\* the callbacks of a trade cycle whose requests are in flight
InFlight(c) ==
  {k \in DOMAIN tcycle[c].task : tcycle[c].task[k].pc \in {"fetching", "watermark", "inserting"}}

\* the batch (0, 1, ..) of the k-th market of a trade cycle
BatchOf(k) == (k - 1) \div TRADE_BATCH_SIZE

\* C36: a snapshot cycle has the requests of at most 10 markets in flight
\* (the markets of its current slice), a trade cycle those of at most 5, and
\* while a callback of a trade batch is in flight every callback of an
\* earlier batch has settled and none of a later batch has been started.
C36_BatchedRequests ==
  /\ \A s \in SnapshotCycles :
       scycle[s].stage = "batch" => Len(scycle[s].batch) <= SNAPSHOT_BATCH_SIZE
  /\ \A c \in TradeCycles :
       /\ Cardinality(InFlight(c)) <= TRADE_BATCH_SIZE
       /\ \A k \in InFlight(c) : \A j \in DOMAIN tcycle[c].task :
            /\ BatchOf(j) < BatchOf(k) => tcycle[c].task[j].pc = "settled"
            /\ BatchOf(j) > BatchOf(k) => tcycle[c].task[j].pc = "pending"

\* both cycles are in their second batch with a request in flight
C36_Witness ==
  /\ scycle["S1"].stage = "batch" /\ scycle["S1"].i = SNAPSHOT_BATCH_SIZE
  /\ tcycle["A"].stage = "run" /\ tcycle["A"].i = TRADE_BATCH_SIZE
  /\ InFlight("A") # {}

\* C37: when the request for the first page of a refresh fails (the listing
\* is not empty, and the refresh ends on its first request), the catalog is
\* left as it was.
C37_FirstPageFailureKeepsCatalog ==
  [][ \A d \in Discoverers :
        ( /\ disc[d].pc = "fetching" /\ disc[d].offset = 0
          /\ listing # <<>>
          /\ disc'[d].pc = "returned" )
          => trackedMarkets' = trackedMarkets ]_vars

\* the least of a non-empty set of seconds
Earliest(S) == CHOOSE x \in S : \A y \in S : x <= y

\* the seconds at which a trades request of the market was issued
PollTimes == {w.at : w \in boot.polls}

\* C38: with ticks on schedule and at most one tick missed, every second
\* from the first poll of a market to its latest poll lies in the lookback
\* window (after .. at, both ends included) of at least one poll.
C38_LookbackCoversEveryPoint ==
  boot.polls # {} =>
    \A p \in Earliest(PollTimes)..Max(PollTimes) :
      \E w \in boot.polls : w.after <= p /\ p <= w.at

\* C39: every stored trade row is flagged as whale trade and as large trade
\* (so is_whale_trade implies is_large_trade in every stored row).
C39_StoredRowsAreWhaleAndLarge ==
  \A r \in BagToSet(trades) :
    /\ r.is_whale_trade
    /\ r.is_large_trade
    /\ (r.is_whale_trade => r.is_large_trade)

\* a cycle has stored a trade after filtering out a smaller one it fetched
C39_Witness ==
  /\ trades # EmptyBag
  /\ \E c \in TradeCycles : \E k \in 1..Len(tcycle[c].task) :
       \E t \in tcycle[c].task[k].fetched :
         /\ ParseSize(t) >= Dollars(LARGE_TRADE_THRESHOLD)
         /\ ParseSize(t) < Dollars(MIN_TRADE_SIZE_TO_STORE)

\* the rows of the table that hold the transaction t
RowsOf(t) == {r \in BagToSet(trades) : r.platform_data = t}

\* C40: a backfill run leaves no transaction with two rows, and once the
\* insert of a market has returned (accepted or rejected as duplicate) every
\* whale trade it had fetched for the market is stored.
C40_BackfillIdempotent ==
  /\ \A t \in feed : Cardinality(RowsOf(t)) <= 1 /\ \A r \in RowsOf(t) : trades[r] = 1
  /\ \A k \in 1..Len(tcycle["backfill"].markets) :
       LET task == tcycle["backfill"].task[k]
       IN task.pc = "settled" /\ task.result \in {"inserted", "insert_error"} =>
            \A row \in task.newTrades : RowsOf(row.platform_data) # {}

====
